---- MODULE Spec2Model ----
(***************************************************************************)
(* Verification model of the SDC calibration-data library (sdc-base.hh):   *)
(* the validity index, the extended-CSV grammar engine and the Documents   *)
(* controller.                                                             *)
(***************************************************************************)
EXTENDS Integers, Naturals, Sequences, FiniteSets, TLC

VARIABLES
    types,      \* ValidityIndex::_types : data type name -> ordered multimap
    hist,       \* ghost: every add_entry call so far, in call order
    loaders,    \* Documents::loaders, each with its public `defaults'
    stream,     \* the input stream handed to the ExtCSV loader (stream API)
    res         \* observation of the last operation (its result / its error)

vars == <<types, hist, loaders, stream, res>>

(***************************************************************************)
(* Bounds                                                                  *)
(***************************************************************************)
MaxKey == 2
MaxEntries == 2
MaxLines == 4
MaxReadLines == 3
MaxAdds == 1
MaxS1Adds == 3
MaxS1Key == 6
MaxMetaLine == 2
MaxMetaEntries == 2
MaxMetaAliases == 1
MaxAliasCalls == 3
MaxEnvEntries == 2
MaxCopyCalls == 3
MaxRangeKey == 3
MaxTokens == 3

(***************************************************************************)
(* Validity key and range                                                  *)
(***************************************************************************)
unset == 0

Keys == 0..MaxKey

is_set(id) == unset # id

less(a, b) == a < b

\* mutation: the bounds of the left operand when both operands have them
intersect_left(a, b) ==
    [from |-> IF is_set(a.from) THEN a.from ELSE b.from,
     to |-> IF is_set(a.to) THEN a.to ELSE b.to]

\* ValidityRange<T>::operator&
intersect(a, b) ==
    [from |-> IF is_set(a.from)
              THEN IF is_set(b.from)
                   THEN IF less(a.from, b.from) THEN b.from ELSE a.from
                   ELSE a.from
              ELSE IF is_set(b.from) THEN b.from ELSE unset,
     to |-> IF is_set(a.to)
            THEN IF is_set(b.to)
                 THEN IF less(a.to, b.to) THEN a.to ELSE b.to
                 ELSE a.to
            ELSE IF is_set(b.to) THEN b.to ELSE unset]

NoRes == [op |-> "none"]

(***************************************************************************)
(* Validity index                                                          *)
(***************************************************************************)
TypeNames == {"X", "Y"}

DocNames == <<"A", "B", "C", "D">>

\* std::multimap::upper_bound : position of the first element whose key is
\* greater than `key', Len+1 standing for end()
upper_bound(index, key) ==
    CHOOSE i \in 1..(Len(index) + 1) :
        /\ \A j \in 1..(i - 1) : ~ less(key, index[j].from)
        /\ i <= Len(index) => less(key, index[i].from)

\* std::multimap::lower_bound (used by the mutated insertion only)
lower_bound(index, key) ==
    CHOOSE i \in 1..(Len(index) + 1) :
        /\ \A j \in 1..(i - 1) : less(index[j].from, key)
        /\ i <= Len(index) => ~ less(index[i].from, key)

InsertAt(index, p, e) ==
    SubSeq(index, 1, p - 1) \o <<e>> \o SubSeq(index, p, Len(index))

IndexOf(ts, dataType) == IF dataType \in DOMAIN ts THEN ts[dataType] ELSE <<>>

\* mutation: a new entry is placed before the entries of equal `from'
add_entry_front(ts, docID, dataType, from, to, auxInfo, sn) ==
    LET index == IndexOf(ts, dataType)
        e == [from |-> from, docID |-> docID, validTo |-> to,
              auxInfo |-> auxInfo, sn |-> sn]
    IN [t \in (DOMAIN ts) \cup {dataType} |->
            IF t = dataType THEN InsertAt(index, lower_bound(index, from), e)
            ELSE ts[t]]

\* mutation: the index keeps one entry for a value of `from' (the emplace
\* of a std::map)
add_entry_unique(ts, docID, dataType, from, to, auxInfo, sn) ==
    LET index == IndexOf(ts, dataType)
        e == [from |-> from, docID |-> docID, validTo |-> to,
              auxInfo |-> auxInfo, sn |-> sn]
    IN [t \in (DOMAIN ts) \cup {dataType} |->
            IF t = dataType
            THEN IF \E i \in 1..Len(index) : index[i].from = from
                 THEN index
                 ELSE InsertAt(index, upper_bound(index, from), e)
            ELSE ts[t]]

\* ValidityIndex::add_entry; `sn' is a ghost serial number of the call
add_entry(ts, docID, dataType, from, to, auxInfo, sn) ==
    LET index == IndexOf(ts, dataType)
        e == [from |-> from, docID |-> docID, validTo |-> to,
              auxInfo |-> auxInfo, sn |-> sn]
    IN [t \in (DOMAIN ts) \cup {dataType} |->
            IF t = dataType THEN InsertAt(index, upper_bound(index, from), e)
            ELSE ts[t]]

\* mutation: an entry whose validTo equals the key is not taken as stale
updates_closed(ts, typeName, key, noTypeIsOk) ==
    IF typeName \notin DOMAIN ts
    THEN IF noTypeIsOk THEN [err |-> "none", known |-> FALSE, us |-> <<>>]
         ELSE [err |-> "UnknownDataType", known |-> FALSE, us |-> <<>>]
    ELSE LET index == ts[typeName]
             upb == upper_bound(index, key)
             stale(e) == is_set(e.validTo) /\ less(e.validTo, key)
         IN [err |-> "none", known |-> TRUE,
             us |-> SelectSeq(SubSeq(index, 1, upb - 1), LAMBDA e : ~ stale(e))]

\* the selection of updates with missing data reported for an empty list
\* unless the call is lenient (used by the mutation below)
nodata_unless(noTypeIsOk, us) ==
    IF us = <<>> /\ ~ noTypeIsOk
    THEN [err |-> "NoCalibrationData", known |-> TRUE, us |-> <<>>]
    ELSE [err |-> "none", known |-> TRUE, us |-> us]

\* mutation: an empty list of a known type is reported as missing data
updates_nodata(ts, typeName, key, noTypeIsOk) ==
    IF typeName \notin DOMAIN ts
    THEN IF noTypeIsOk THEN [err |-> "none", known |-> FALSE, us |-> <<>>]
         ELSE [err |-> "UnknownDataType", known |-> FALSE, us |-> <<>>]
    ELSE nodata_unless(noTypeIsOk,
            SelectSeq(SubSeq(ts[typeName], 1,
                             upper_bound(ts[typeName], key) - 1),
                      LAMBDA e : ~ (is_set(e.validTo) /\ e.validTo <= key)))

\* ValidityIndex::updates(typeName, key, noTypeIsOk)
updates(ts, typeName, key, noTypeIsOk) ==
    IF typeName \notin DOMAIN ts
    THEN IF noTypeIsOk THEN [err |-> "none", known |-> FALSE, us |-> <<>>]
         ELSE [err |-> "UnknownDataType", known |-> FALSE, us |-> <<>>]
    ELSE LET index == ts[typeName]
             upb == upper_bound(index, key)
             stale(e) == is_set(e.validTo)
                         /\ (less(e.validTo, key) \/ e.validTo = key)
         IN [err |-> "none", known |-> TRUE,
             us |-> SelectSeq(SubSeq(index, 1, upb - 1), LAMBDA e : ~ stale(e))]

NoUpdate == [from |-> unset, docID |-> "", validTo |-> unset,
             auxInfo |-> "", sn |-> 0]

\* the backward loop of ValidityIndex::latest, `it' being the iterator
\* position (Len+1 is end()); decrementing begin() is undefined behaviour
RECURSIVE latest_loop(_, _, _)
latest_loop(index, key, it) ==
    IF it < 1 THEN [err |-> "UB", upd |-> NoUpdate]
    ELSE IF it = Len(index) + 1 THEN latest_loop(index, key, it - 1)
    ELSE IF (~ is_set(index[it].validTo)) \/ less(key, index[it].validTo)
         THEN IF less(key, index[it].from)
              THEN latest_loop(index, key, it - 1)
              ELSE [err |-> "none", upd |-> index[it]]
         ELSE IF it = 1 THEN [err |-> "NoCalibrationData", upd |-> NoUpdate]
              ELSE latest_loop(index, key, it - 1)

\* mutation: the entry before upper_bound(key) is returned, stale or not
latest_unchecked(ts, typeName, key) ==
    IF typeName \notin DOMAIN ts
    THEN [err |-> "UnknownDataType", upd |-> NoUpdate]
    ELSE IF upper_bound(ts[typeName], key) = 1
         THEN [err |-> "NoCalibrationData", upd |-> NoUpdate]
         ELSE [err |-> "none",
               upd |-> ts[typeName][upper_bound(ts[typeName], key) - 1]]

\* mutation: the first fitting entry in index order is returned
latest_first(ts, typeName, key) ==
    IF typeName \notin DOMAIN ts
    THEN [err |-> "UnknownDataType", upd |-> NoUpdate]
    ELSE LET us == updates(ts, typeName, key, FALSE).us
         IN IF us = <<>> THEN [err |-> "NoCalibrationData", upd |-> NoUpdate]
            ELSE [err |-> "none", upd |-> us[1]]

\* ValidityIndex::latest(typeName, key)
latest(ts, typeName, key) ==
    IF typeName \notin DOMAIN ts
    THEN [err |-> "UnknownDataType", upd |-> NoUpdate]
    ELSE LET index == ts[typeName]
             it == upper_bound(index, key)
         IN IF it = 1 THEN [err |-> "NoCalibrationData", upd |-> NoUpdate]
            ELSE latest_loop(index, key, it)

\* the staleness test of updates(typeName, oldKey, newKey, ...)
stale_between(e, newKey, keepStale) ==
    /\ ~ keepStale
    /\ is_set(e.validTo)
    /\ (less(e.validTo, newKey) \/ e.validTo = newKey)

\* the loop `for( it = oldIt; it != newIt; ++it )' started behind newIt: the
\* entries up to end() are visited, then end() is dereferenced and
\* incremented, which is undefined behaviour.  The outcomes kept here are a
\* crash, a list that ends in a reference to no entry, and the lists a
\* build may return when the walk meets newIt again.
past_end(index, oldIt, newKey, keepStale) ==
    LET tail == SelectSeq(SubSeq(index, oldIt, Len(index)),
                          LAMBDA e : ~ stale_between(e, newKey, keepStale))
    IN {[err |-> "crash", us |-> <<>>],
        [err |-> "none", us |-> <<>>],
        [err |-> "none", us |-> tail],
        [err |-> "none", us |-> Append(tail, NoUpdate)]}

\* the loop of updates(typeName, oldKey, newKey, ...) between two iterators
between(index, oldIt, newIt, newKey, keepStale) ==
    IF oldIt > newIt
    THEN past_end(index, oldIt, newKey, keepStale)
    ELSE {[err |-> "none",
           us |-> SelectSeq(SubSeq(index, oldIt, newIt - 1),
                      LAMBDA e : ~ stale_between(e, newKey, keepStale))]}

\* ValidityIndex::updates(typeName, oldKey, newKey, noTypeIsOk, keepStale):
\* the set of its possible outcomes
updates_between(ts, typeName, oldKey, newKey, noTypeIsOk, keepStale) ==
    IF typeName \notin DOMAIN ts
    THEN IF noTypeIsOk THEN {[err |-> "none", us |-> <<>>]}
         ELSE {[err |-> "UnknownDataType", us |-> <<>>]}
    ELSE between(ts[typeName],
                 IF is_set(oldKey) THEN upper_bound(ts[typeName], oldKey)
                 ELSE 1,
                 IF is_set(newKey) THEN upper_bound(ts[typeName], newKey)
                 ELSE Len(ts[typeName]) + 1,
                 newKey, keepStale)

(***************************************************************************)
(* Lexical level: strings are kept as strings; splitting a string at a     *)
(* character (std::string::find / substr / trim) is a table over the       *)
(* texts that occur in the model                                           *)
(***************************************************************************)
\* ValidityTraits<T>::from_string = lexical_cast<unsigned long> (std::stoul)
KeyFromString(tok) ==
    CASE tok = "0" -> [err |-> "none", v |-> 0]
      [] tok = "1" -> [err |-> "none", v |-> 1]
      [] tok = "2" -> [err |-> "none", v |-> 2]
      [] tok = "3" -> [err |-> "none", v |-> 3]
      [] tok = "4" -> [err |-> "none", v |-> 4]
      [] tok = "5" -> [err |-> "none", v |-> 5]
      [] tok = "6" -> [err |-> "none", v |-> 6]
      [] tok = "100" -> [err |-> "none", v |-> 100]
      [] tok = "500" -> [err |-> "none", v |-> 500]
      [] tok = "501" -> [err |-> "none", v |-> 501]
      [] tok = "1000" -> [err |-> "none", v |-> 1000]
      [] tok = "1001" -> [err |-> "none", v |-> 1001]
      [] OTHER -> [err |-> "ParserError", v |-> 0]

\* strexpr.find(strRangeDelimiter) with the two trimmed substrings around it:
\* pos is the delimiter position (-1 for npos), f the text before it (the
\* whole text without a delimiter), t the text after it
SplitRange(strexpr) ==
    CASE strexpr = "1-1" -> [pos |-> 1, f |-> "1", t |-> "1"]
      [] strexpr = "1-2" -> [pos |-> 1, f |-> "1", t |-> "2"]
      [] strexpr = "2-3" -> [pos |-> 1, f |-> "2", t |-> "3"]
      [] strexpr = "2-1" -> [pos |-> 1, f |-> "2", t |-> "1"]
      [] strexpr = "1-..." -> [pos |-> 1, f |-> "1", t |-> "..."]
      [] strexpr = "2-..." -> [pos |-> 1, f |-> "2", t |-> "..."]
      [] strexpr = "3-..." -> [pos |-> 1, f |-> "3", t |-> "..."]
      [] strexpr = "5-..." -> [pos |-> 1, f |-> "5", t |-> "..."]
      [] strexpr = "6-..." -> [pos |-> 1, f |-> "6", t |-> "..."]
      [] strexpr = "...-1" -> [pos |-> 3, f |-> "...", t |-> "1"]
      [] strexpr = "-1" -> [pos |-> 0, f |-> "", t |-> "1"]
      [] strexpr = "0-5" -> [pos |-> 1, f |-> "0", t |-> "5"]
      [] strexpr = "1-3" -> [pos |-> 1, f |-> "1", t |-> "3"]
      [] strexpr = "2-2" -> [pos |-> 1, f |-> "2", t |-> "2"]
      [] strexpr = "2-4" -> [pos |-> 1, f |-> "2", t |-> "4"]
      [] strexpr = "100-501" -> [pos |-> 3, f |-> "100", t |-> "501"]
      [] strexpr = "500-1001" -> [pos |-> 3, f |-> "500", t |-> "1001"]
      [] strexpr = "...-2" -> [pos |-> 3, f |-> "...", t |-> "2"]
      [] strexpr = "...-6" -> [pos |-> 3, f |-> "...", t |-> "6"]
      [] strexpr = "1" -> [pos |-> -1, f |-> "1", t |-> ""]
      [] strexpr = "2" -> [pos |-> -1, f |-> "2", t |-> ""]
      [] strexpr = "0" -> [pos |-> -1, f |-> "0", t |-> ""]
      [] strexpr = "100-500" -> [pos |-> 3, f |-> "100", t |-> "500"]
      [] strexpr = "500-1000" -> [pos |-> 3, f |-> "500", t |-> "1000"]
      [] OTHER -> [pos |-> -1, f |-> strexpr, t |-> ""]

\* mutation: the key is left as it is
advance_none(rn) == rn

\* ValidityTraits<T>::advance
advance(rn) == rn + 1

UnsetRange == [from |-> unset, to |-> unset]

\* the part before the delimiter: rr.from, or the error of "..."
FromPart(sp) ==
    IF sp.pos # 0
    THEN IF sp.f # "..." THEN KeyFromString(sp.f)
         ELSE [err |-> "ParserError", v |-> unset]
    ELSE [err |-> "none", v |-> unset]

\* ValidityTraits<T>::advance(rr.to) on the converted token
Advanced(k) == [err |-> k.err, v |-> advance(k.v)]

\* the part after the delimiter: rr.to, fr being the part before it
ToPart(sp, fr) ==
    IF sp.pos # -1
    THEN IF sp.t # "..." THEN Advanced(KeyFromString(sp.t))
         ELSE [err |-> "none", v |-> unset]
    ELSE IF ~ is_set(fr.v) THEN [err |-> "ParserError", v |-> unset]
         ELSE [err |-> "none", v |-> advance(fr.v)]

\* the range of the two parts, or the first error
RangeOfParts(fr, tr) ==
    IF fr.err # "none" THEN [err |-> fr.err, rr |-> UnsetRange]
    ELSE IF tr.err # "none" THEN [err |-> tr.err, rr |-> UnsetRange]
    ELSE [err |-> "none", rr |-> [from |-> fr.v, to |-> tr.v]]

RangeOfSplit(sp, fr) == RangeOfParts(fr, ToPart(sp, fr))

\* LexicalTraits< ValidityRange<T> >::from_string
RangeFromString(strexpr) ==
    RangeOfSplit(SplitRange(strexpr), FromPart(SplitRange(strexpr)))

\* ValidityTraits<T>::to_string = std::to_string, for the keys of the model
to_string(rn) ==
    CASE rn = 0 -> "0"
      [] rn = 1 -> "1"
      [] rn = 2 -> "2"
      [] rn = 3 -> "3"
      [] rn = 4 -> "4"
      [] rn = 5 -> "5"
      [] rn = 6 -> "6"
      [] rn = 100 -> "100"
      [] rn = 501 -> "501"
      [] rn = 500 -> "500"
      [] rn = 1001 -> "1001"
      [] OTHER -> "?"

\* LexicalTraits< ValidityRange<T> >::to_string
RangeToString(rr) ==
    (IF is_set(rr.from) THEN to_string(rr.from) ELSE "...")
       \o "-" \o (IF is_set(rr.to) THEN to_string(rr.to) ELSE "...")

\* tokenize(strexpr, ','): the trimmed texts between the commas
tokenize(strexpr) ==
    CASE strexpr = "a, b, c" -> <<"a", "b", "c">>
      [] strexpr = "b, c" -> <<"b", "c">>
      [] strexpr = "c,a" -> <<"c", "a">>
      [] strexpr = "a,b,a" -> <<"a", "b", "a">>
      [] OTHER -> <<strexpr>>

\* lexical_cast<ColumnsOrder>: ord[col] = nTok++ over the tokens, a later
\* index replacing an earlier one of the same name
ColumnsOrder(columns) ==
    [col \in {columns[i] : i \in 1..Len(columns)} |->
        (CHOOSE i \in 1..Len(columns) :
            /\ columns[i] = col
            /\ \A j \in 1..Len(columns) : columns[j] = col => j <= i) - 1]

\* the CSVLine of a row whose tokens suffice
CSVLine(ord, toks) == [col \in DOMAIN ord |-> toks[ord[col] + 1]]

\* mutation: a row of another number of tokens than the greatest index
\* asks for is refused
interpret_strict(ord, toks) ==
    IF \E col \in DOMAIN ord : Len(toks) # ord[col] + 1
    THEN {[err |-> "ParserError", col |-> col, count |-> Len(toks),
           l |-> <<>>] :
             col \in {c \in DOMAIN ord : Len(toks) # ord[c] + 1}}
    ELSE {[err |-> "none", col |-> "", count |-> 0,
           l |-> CSVLine(ord, toks)]}

\* ColumnsOrder::interpret: the loop stops at the first column, in the
\* order of the unordered_map, that has no token; any of them may be it
interpret(ord, toks) ==
    IF \E col \in DOMAIN ord : Len(toks) <= ord[col]
    THEN {[err |-> "ParserError", col |-> col, count |-> Len(toks),
           l |-> <<>>] :
             col \in {c \in DOMAIN ord : Len(toks) <= ord[c]}}
    ELSE {[err |-> "none", col |-> "", count |-> 0,
           l |-> CSVLine(ord, toks)]}

\* CSVLine::operator()(name)
csv_value(l, name) ==
    IF name \in DOMAIN l THEN [err |-> "none", v |-> l[name]]
    ELSE [err |-> "NoColumnDefinedForTable", v |-> ""]

\* CSVLine::operator()(name, default_) for std::string
csv_value_or(l, name, default_) ==
    IF name \in DOMAIN l THEN l[name] ELSE default_

(***************************************************************************)
(* Extended CSV grammar engine.  A stream is a sequence of physical lines; *)
(* a line is given by what aux::getline and handle_metadata make of it:    *)
(* k = "blank" (empty or comment only), k = "md" (it holds the metadata    *)
(* marker, with the trimmed key and the value text around it), k = "row".  *)
(***************************************************************************)
Blank == [k |-> "blank", key |-> "", val |-> ""]

Md(key, val) == [k |-> "md", key |-> key, val |-> val]

Row(text) == [k |-> "row", key |-> "", val |-> text]

\* ExtCSVLoader() : grammar{ '#', '=', "runs", "type" }
DefaultGrammar ==
    [metadataMarker |-> "=", metadataKeyTag |-> "runs",
     metadataTypeTag |-> "type"]

\* the customised grammar of the tests: no key tag, no type tag
TaglessGrammar ==
    [metadataMarker |-> "=", metadataKeyTag |-> "", metadataTypeTag |-> ""]

\* MetaInfo::set on an environment without aliases
MdSet(md, name, value, lineNo) == md \cup {<<name, lineNo, value>>}

\* MetaInfo::drop
MdDrop(md, name) == {e \in md : e[1] # name}

\* PreparsingState(g, defaults.validityRange, defaults.dataType) and
\* ParsingState(g, validityRange, dataType, forType, forKey, cllb, baseMD);
\* md(baseMD) copies the entries of the environment, not its aliases
\* with the locals of _parse_stream (indexNextCSVLine, thisBlockPassed)
NewState(mode, validity, type, forType, forKey, baseMD) ==
    [mode |-> mode, validity |-> validity, type |-> type,
     forType |-> forType, forKey |-> forKey, md |-> baseMD,
     r |-> <<>>, out |-> <<>>, err |-> "none", errLine |-> 0,
     asserted |-> FALSE, rowAsserted |-> FALSE,
     indexNextCSVLine |-> TRUE, thisBlockPassed |-> FALSE, done |-> FALSE]

\* key == g.metadataKeyTag and key == g.metadataTypeTag of handle_metadata
IsKeyLine(g, ln) == g.metadataKeyTag # "" /\ ln.key = g.metadataKeyTag

IsTypeLine(g, ln) == g.metadataTypeTag # "" /\ ln.key = g.metadataTypeTag

\* mutation: the entry is made only while the rows are accepted
md_set_gated(st, ln, lineNo) ==
    IF st.mode = "read" /\ st.type = st.forType
    THEN [st EXCEPT !.md = MdSet(@, ln.key, ln.val, lineNo)]
    ELSE st

\* md.set(key, val, lineNo) of ParsingState::handle_metadata
md_set(st, ln, lineNo) ==
    IF st.mode = "read"
    THEN [st EXCEPT !.md = MdSet(@, ln.key, ln.val, lineNo)]
    ELSE st

\* validity = from_string(...), pr being what the conversion gives
md_range(st, lineNo, pr) ==
    IF pr.err # "none" THEN [st EXCEPT !.err = pr.err, !.errLine = lineNo]
    ELSE [st EXCEPT !.validity = pr.rr]

md_key(g, st, ln, lineNo) ==
    IF IsKeyLine(g, ln) THEN md_range(st, lineNo, RangeFromString(ln.val))
    ELSE st

\* type = trim(...) of handle_metadata
md_type(g, st, ln) ==
    IF IsTypeLine(g, ln) /\ st.err = "none" THEN [st EXCEPT !.type = ln.val]
    ELSE st

\* PreparsingState::handle_metadata and ParsingState::handle_metadata:
\* the flags 0x1 (is metadata) and 0x2 (starts a block) and the new state
handle_metadata(g, st, ln, lineNo) ==
    IF g.metadataMarker = "" \/ ln.k # "md"
    THEN [md |-> FALSE, blk |-> FALSE, st |-> st]
    ELSE [md |-> TRUE, blk |-> IsKeyLine(g, ln) \/ IsTypeLine(g, ln),
          st |-> md_type(g, md_key(g, md_set(st, ln, lineNo), ln, lineNo),
                         ln)]

\* mutation: a range whose bounds are equal counts as non-empty
NonEmpty_closed(rr) ==
    IF ~ (is_set(rr.from) /\ is_set(rr.to)) THEN TRUE
    ELSE ~ less(rr.to, rr.from)

\* ValidityRange::operator bool
NonEmpty(rr) ==
    IF ~ (is_set(rr.from) /\ is_set(rr.to)) THEN TRUE
    ELSE less(rr.from, rr.to)

\* mutation: the gate looks at the type alone
Gated_type_only(st) == st.type # st.forType

\* the gate of ParsingState::handle_csv
Gated(st) ==
    \/ st.type # st.forType
    \/ (is_set(st.validity.from) /\ st.forKey < st.validity.from)
    \/ (is_set(st.validity.to)
        /\ (st.validity.to < st.forKey \/ st.validity.to = st.forKey))

\* snprintf(bf, "%zu", lineNo)
LineNoText == [n \in 0..9 |->
    CASE n = 0 -> "0" [] n = 1 -> "1" [] n = 2 -> "2" [] n = 3 -> "3"
      [] n = 4 -> "4" [] n = 5 -> "5" [] n = 6 -> "6" [] n = 7 -> "7"
      [] n = 8 -> "8" [] n = 9 -> "9"]

\* lexical_cast<size_t> of the text of a line number
SizeFromString(tok) ==
    IF \E n \in 0..9 : LineNoText[n] = tok
    THEN [err |-> "none", v |-> CHOOSE n \in 0..9 : LineNoText[n] = tok]
    ELSE [err |-> "ParserError", v |-> 0]

\* the call cllb(md, lineNo, line) as it is observed
Call(st, ln, lineNo, md1) ==
    [line |-> lineNo, text |-> ln.val, md |-> md1, type |-> st.type,
     validity |-> st.validity]

\* what md.get<size_t>("@lineNo") can take its value from: the entries of
\* that name with the greatest line (operator[] keeps one entry per line)
LineNoSeen(md) ==
    {e[3] : e \in {e \in md : /\ e[1] = "@lineNo"
                               /\ \A f \in md : f[1] = "@lineNo" => f[2] <= e[2]}}

\* mutation: the entry of the row is not dropped after the callback
csv_call_no_drop(st, ln, lineNo, cllb, md1) ==
    IF cllb[lineNo] \notin {"true", "false"}
    THEN [ret |-> FALSE,
          st |-> [st EXCEPT !.out = Append(@, Call(st, ln, lineNo, md1)),
                            !.md = md1, !.err = cllb[lineNo],
                            !.errLine = lineNo]]
    ELSE [ret |-> cllb[lineNo] = "true",
          st |-> [st EXCEPT !.out = Append(@, Call(st, ln, lineNo, md1)),
                            !.md = md1]]

\* ParsingState::handle_csv from md.set("@lineNo", bf) on, md1 being the
\* metadata with that entry; cllb[lineNo] is what the reader callback does
\* for the row of that line: "true", "false", or the kind of the exception
\* it throws.  The assertion on md.get<size_t>("@lineNo") is kept in
\* `asserted'.
csv_call(st, ln, lineNo, cllb, md1) ==
    IF cllb[lineNo] \notin {"true", "false"}
    THEN [ret |-> FALSE,
          st |-> [st EXCEPT !.out = Append(@, Call(st, ln, lineNo, md1)),
                            !.md = md1, !.err = cllb[lineNo],
                            !.errLine = lineNo,
                            !.asserted =
                                @ \/ LineNoSeen(md1) # {LineNoText[lineNo]}]]
    ELSE [ret |-> cllb[lineNo] = "true",
          st |-> [st EXCEPT !.out = Append(@, Call(st, ln, lineNo, md1)),
                            !.md = MdDrop(md1, "@lineNo"),
                            !.asserted =
                                @ \/ LineNoSeen(md1) # {LineNoText[lineNo]}]]

\* ParsingState::handle_csv after its two assertions
csv_gate(st, ln, lineNo, cllb) ==
    IF Gated(st) THEN [ret |-> TRUE, st |-> st]
    ELSE csv_call(st, ln, lineNo, cllb,
                  MdSet(st.md, "@lineNo", LineNoText[lineNo], 0))

\* PreparsingState::handle_csv (does nothing) and ParsingState::handle_csv;
\* `asserted' tells that one of the assertions did not hold, `rowAsserted'
\* that one of the two assertions on cVal and cType did not
handle_csv(st, ln, lineNo, cllb) ==
    IF st.mode = "pre" THEN [ret |-> TRUE, st |-> st]
    ELSE csv_gate([st EXCEPT !.asserted =
                      @ \/ ~ NonEmpty(st.validity) \/ st.type = "",
                             !.rowAsserted =
                      @ \/ ~ NonEmpty(st.validity) \/ st.type = ""],
                  ln, lineNo, cllb)

\* mutation: the range is looked at before the type
handle_csv_start_range_first(g, st, lineNo) ==
    IF st.mode # "pre" THEN st
    ELSE IF ~ (is_set(st.validity.from) \/ is_set(st.validity.to))
         THEN [st EXCEPT !.err = "NoValidityRange", !.errLine = lineNo]
         ELSE IF st.type = ""
              THEN [st EXCEPT !.err = "NoDataTypeDefined", !.errLine = lineNo]
              ELSE [st EXCEPT !.r = Append(st.r,
                       [dataType |-> st.type, validityRange |-> st.validity,
                        blockBgn |-> lineNo])]

\* PreparsingState::handle_csv_start and ParsingState::handle_csv_start
handle_csv_start(g, st, lineNo) ==
    IF st.mode # "pre" THEN st
    ELSE IF st.type = ""
         THEN [st EXCEPT !.err = "NoDataTypeDefined", !.errLine = lineNo]
         ELSE IF ~ (is_set(st.validity.from) \/ is_set(st.validity.to))
              THEN [st EXCEPT !.err = "NoValidityRange", !.errLine = lineNo]
              ELSE [st EXCEPT !.r = Append(st.r,
                       [dataType |-> st.type, validityRange |-> st.validity,
                        blockBgn |-> lineNo])]

\* the loop body of _parse_stream after handle_csv, h being its result
csv_handled(g, h, lineNo) ==
    IF ~ h.ret THEN h.st
    ELSE IF h.st.indexNextCSVLine
         THEN [handle_csv_start(g, h.st, lineNo)
                  EXCEPT !.indexNextCSVLine = FALSE]
         ELSE h.st

\* mutation: the single-block mode does not end the read at the next block
csv_line_all_blocks(g, st, ln, lineNo, acceptCSVFromLine, onlyThisBlock, cllb) ==
    IF lineNo < acceptCSVFromLine THEN st
    ELSE csv_handled(g,
           handle_csv([st EXCEPT !.thisBlockPassed =
                          @ \/ (st.indexNextCSVLine /\ onlyThisBlock)],
                      ln, lineNo, cllb),
           lineNo)

\* the part of the loop body of _parse_stream that treats a data row
csv_line(g, st, ln, lineNo, acceptCSVFromLine, onlyThisBlock, cllb) ==
    IF lineNo < acceptCSVFromLine THEN st
    ELSE IF st.indexNextCSVLine /\ onlyThisBlock /\ st.thisBlockPassed
         THEN [st EXCEPT !.done = TRUE]
         ELSE csv_handled(g,
                handle_csv([st EXCEPT !.thisBlockPassed =
                               @ \/ (st.indexNextCSVLine /\ onlyThisBlock)],
                           ln, lineNo, cllb),
                lineNo)

\* mutation: every metadata line makes the next data row start a block
after_metadata_any(g, st, m, ln, lineNo, acceptFrom, only, cllb) ==
    IF m.md THEN [m.st EXCEPT !.indexNextCSVLine = TRUE]
    ELSE csv_line(g, st, ln, lineNo, acceptFrom, only, cllb)

\* the loop body of _parse_stream after handle_metadata, m being its result
after_metadata(g, st, m, ln, lineNo, acceptFrom, only, cllb) ==
    IF m.md
    THEN IF m.blk THEN [m.st EXCEPT !.indexNextCSVLine = TRUE] ELSE m.st
    ELSE csv_line(g, st, ln, lineNo, acceptFrom, only, cllb)

\* one pass of the loop of _parse_stream, for the line aux::getline returns
\* (aux::getline counts the blank lines and passes over them)
loop_body(g, st, ln, lineNo, acceptCSVFromLine, onlyThisBlock, cllb) ==
    IF ln.k = "blank" THEN st
    ELSE after_metadata(g, st, handle_metadata(g, st, ln, lineNo), ln,
                        lineNo, acceptCSVFromLine, onlyThisBlock, cllb)

\* ExtCSVLoader::_parse_stream from line i on; it ends at the end of the
\* stream, at the return of the single-block mode or at an exception
RECURSIVE parse_stream(_, _, _, _, _, _, _)
parse_stream(g, lines, i, st, acceptCSVFromLine, onlyThisBlock, cllb) ==
    IF i > Len(lines) \/ st.done \/ st.err # "none" THEN st
    ELSE parse_stream(g, lines, i + 1,
                      loop_body(g, st, lines[i], i, acceptCSVFromLine,
                                 onlyThisBlock, cllb),
                      acceptCSVFromLine, onlyThisBlock, cllb)

\* mutation: read_data reads on after the block of the start marker
FIX001_disabled == FALSE

\* #define ENABLE_SDC_FIX001 1
ENABLE_SDC_FIX001 == TRUE

\* the callback of the pre-parsing pass is never called
NoCallback == [n \in 0..9 |-> "true"]

\* ExtCSVLoader::get_doc_struct(std::istream &)
get_doc_struct(g, defaults, lines) ==
    parse_stream(g, lines, 1,
                 NewState("pre", defaults.validityRange, defaults.dataType,
                          "", unset, {}),
                 0, FALSE, NoCallback)

\* ExtCSVLoader::read_data(std::istream &, k, forType, acceptCSVFromLine, cllb)
read_data(g, defaults, lines, k, forType, acceptCSVFromLine, cllb) ==
    parse_stream(g, lines, 1,
                 NewState("read", defaults.validityRange, defaults.dataType,
                          forType, k, defaults.baseMD.entries),
                 acceptCSVFromLine, ENABLE_SDC_FIX001, cllb)

(***************************************************************************)
(* Specification of the bare validity index                                *)
(***************************************************************************)
NoLoaders == <<>>

NoStream == <<>>

InitIndex ==
    /\ types = [t \in {} |-> <<>>]
    /\ hist = <<>>
    /\ loaders = NoLoaders
    /\ stream = NoStream
    /\ res = NoRes

\* The queries are const members: they leave the index as it is, and their
\* result is observed in `res'.  A behaviour of the index ends with the
\* observation of one query; the index after it is the index before it.
Observed == res.op \in {"updates", "updates_between", "latest"}

AddEntry ==
    /\ ~ Observed
    /\ Len(hist) < MaxEntries
    /\ \E dataType \in TypeNames, from \in Keys, to \in Keys :
         LET sn == Len(hist) + 1
             docID == DocNames[sn]
         IN /\ types' = add_entry(types, docID, dataType, from, to, "aux", sn)
            /\ hist' = Append(hist, [sn |-> sn, docID |-> docID,
                                     type |-> dataType, from |-> from,
                                     validTo |-> to, auxInfo |-> "aux"])
            /\ res' = [op |-> "add_entry", sn |-> sn]
    /\ UNCHANGED <<loaders, stream>>

QueryUpdates ==
    /\ ~ Observed
    /\ \E typeName \in TypeNames, key \in Keys, noTypeIsOk \in BOOLEAN :
         LET r == updates(types, typeName, key, noTypeIsOk)
         IN res' = [op |-> "updates", type |-> typeName, key |-> key,
                    lenient |-> noTypeIsOk, err |-> r.err, us |-> r.us]
    /\ UNCHANGED <<types, hist, loaders, stream>>

QueryLatest ==
    /\ ~ Observed
    /\ \E typeName \in TypeNames, key \in Keys :
         LET r == latest(types, typeName, key)
         IN res' = [op |-> "latest", type |-> typeName, key |-> key,
                    err |-> r.err, upd |-> r.upd]
    /\ UNCHANGED <<types, hist, loaders, stream>>

QueryUpdatesBetween ==
    /\ ~ Observed
    /\ \E typeName \in TypeNames, oldKey \in Keys, newKey \in Keys,
          noTypeIsOk \in BOOLEAN, keepStale \in BOOLEAN :
         \E r \in updates_between(types, typeName, oldKey, newKey,
                                  noTypeIsOk, keepStale) :
            res' = [op |-> "updates_between", type |-> typeName,
                    oldKey |-> oldKey, newKey |-> newKey,
                    lenient |-> noTypeIsOk, keepStale |-> keepStale,
                    err |-> r.err, us |-> r.us]
    /\ UNCHANGED <<types, hist, loaders, stream>>

NextIndex == AddEntry \/ QueryUpdates \/ QueryUpdatesBetween \/ QueryLatest

SpecIndex == InitIndex /\ [][NextIndex]_vars

(***************************************************************************)
(* Claims about the validity index                                         *)
(***************************************************************************)
Range(s) == {s[i] : i \in 1..Len(s)}

\* the calls that inserted under `type' an entry valid at key k
ValidAt(type, k) ==
    {h \in Range(hist) : /\ h.type = type
                         /\ h.from <= k
                         /\ (h.validTo = unset \/ h.validTo > k)}

Sns(s) == {s[i].sn : i \in 1..Len(s)}

\* C1: updates(type, k) for a set key k holds exactly the entries inserted
\* under `type' with from <= k and validity_to unset or > k (each once)
C1_UpdatesExact ==
    (res.op = "updates" /\ is_set(res.key) /\ res.type \in DOMAIN types) =>
        /\ res.err = "none"
        /\ Sns(res.us) = {h.sn : h \in ValidAt(res.type, res.key)}
        /\ Cardinality(Sns(res.us)) = Len(res.us)
        /\ \A i \in 1..Len(res.us) :
             \E h \in Range(hist) :
                /\ h.sn = res.us[i].sn /\ h.docID = res.us[i].docID
                /\ h.from = res.us[i].from /\ h.validTo = res.us[i].validTo

\* an entry whose validity_to equals the key was left out of a non-empty list
C1_Witness ==
    /\ res.op = "updates" /\ is_set(res.key) /\ res.us # <<>>
    /\ \E h \in Range(hist) : /\ h.type = res.type /\ h.from <= res.key
                              /\ h.validTo = res.key
                              /\ h.sn \notin Sns(res.us)

\* C2: latest(type, k) returns, among the entries of `type' valid at k, the
\* one with the greatest from, and among those the one inserted last
C2_LatestGreatestFromLastInserted ==
    (res.op = "latest" /\ is_set(res.key)
        /\ ValidAt(res.type, res.key) # {}) =>
        /\ res.err = "none"
        /\ \E h \in ValidAt(res.type, res.key) :
             /\ h.sn = res.upd.sn
             /\ h.from = res.upd.from /\ h.docID = res.upd.docID
             /\ h.validTo = res.upd.validTo
             /\ \A g \in ValidAt(res.type, res.key) :
                  \/ g.from < h.from
                  \/ (g.from = h.from /\ g.sn <= h.sn)

\* latest returned the later of two valid entries with the same from
C2_Witness ==
    /\ res.op = "latest" /\ res.err = "none" /\ is_set(res.key)
    /\ \E g \in ValidAt(res.type, res.key) :
          g.from = res.upd.from /\ g.sn < res.upd.sn

\* latest skipped a stale entry of greater from for a valid one below it
C2_WitnessStale ==
    /\ res.op = "latest" /\ res.err = "none" /\ is_set(res.key)
    /\ \E h \in Range(hist) :
          /\ h.type = res.type /\ h.from <= res.key /\ h.from > res.upd.from
          /\ h.validTo # unset /\ h.validTo <= res.key

\* C4: the list returned by updates is ordered by ascending from, entries of
\* equal from in insertion order, and is a subsequence of the per-type index
C4_UpdatesOrdered ==
    (res.op = "updates" /\ res.type \in DOMAIN types) =>
        /\ \A i, j \in 1..Len(res.us) :
             i < j => \/ res.us[i].from < res.us[j].from
                      \/ /\ res.us[i].from = res.us[j].from
                         /\ res.us[i].sn < res.us[j].sn
        /\ res.us = SelectSeq(types[res.type],
                              LAMBDA e : e.sn \in Sns(res.us))

\* a list of two entries of equal from was returned
C4_Witness ==
    /\ res.op = "updates" /\ Len(res.us) >= 2
    /\ res.us[1].from = res.us[2].from

\* C11: for a type without entries updates gives an empty list when lenient
\* and fails with UnknownDataType otherwise, and latest fails with
\* UnknownDataType; for a type with entries none of which is valid at the
\* key, updates gives an empty list without error and latest fails with
\* NoCalibrationData; for a type with entries the lenient flag has no effect
C11_QueryErrors ==
    LET known == \E h \in Range(hist) : h.type = res.type
    IN /\ (res.op = "updates" /\ ~ known) =>
             /\ res.us = <<>>
             /\ res.err = IF res.lenient THEN "none" ELSE "UnknownDataType"
       /\ (res.op = "latest" /\ ~ known) => res.err = "UnknownDataType"
       /\ (res.op = "updates" /\ known) =>
             /\ res.err = "none"
             /\ ValidAt(res.type, res.key) = {} => res.us = <<>>
             /\ updates(types, res.type, res.key, ~ res.lenient).err = "none"
             /\ updates(types, res.type, res.key, ~ res.lenient).us = res.us
       /\ (res.op = "latest" /\ known /\ ValidAt(res.type, res.key) = {}) =>
             res.err = "NoCalibrationData"

\* a strict updates call on a type whose only entries started at or before
\* the key and are stale gave an empty list without error
C11_Witness ==
    /\ res.op = "updates" /\ ~ res.lenient /\ is_set(res.key)
    /\ res.err = "none" /\ res.us = <<>>
    /\ \E h \in Range(hist) : h.type = res.type /\ h.from <= res.key
    /\ ValidAt(res.type, res.key) = {}

\* latest failed with NoCalibrationData after walking back over stale entries
C11_WitnessLatest ==
    /\ res.op = "latest" /\ res.err = "NoCalibrationData"
    /\ \E h \in Range(hist) : h.type = res.type /\ h.from <= res.key

\* the entries of the window (oldKey, newKey], stale ones left out unless
\* they are asked for
InWindow(e) ==
    /\ (~ is_set(res.oldKey)) \/ e.from > res.oldKey
    /\ (~ is_set(res.newKey)) \/ e.from <= res.newKey
    /\ res.keepStale \/ ~ (is_set(e.validTo) /\ e.validTo <= res.newKey)

\* C12: updates(type, oldKey, newKey, lenient, keepStale) on a type with
\* entries returns without error, in index order, exactly the entries with
\* from in (oldKey, newKey] (from the beginning when oldKey is unset, to the
\* end when newKey is unset), without the entries of set validTo <= newKey
\* unless keepStale; for set keys with oldKey >= newKey this is the empty list
C12_UpdatesBetween ==
    (res.op = "updates_between" /\ res.type \in DOMAIN types) =>
        /\ res.err = "none"
        /\ res.us = SelectSeq(types[res.type], InWindow)

(***************************************************************************)
(* Specifications of the grammar engine on a stream: the stream, the       *)
(* grammar and the loader's defaults are drawn in the initial state and    *)
(* one pass over the stream is made                                        *)
(***************************************************************************)
Max(S) == CHOOSE x \in S : \A y \in S : y <= x

Min(S) == CHOOSE x \in S : \A y \in S : x <= y

LineAlphabet ==
    {Blank, Md("runs", "1-1"), Md("runs", "2-..."), Md("type", "A"),
     Md("type", "B"), Md("columns", "x"), Row("r")}

StreamsUpTo(n) == UNION {[1..m -> LineAlphabet] : m \in 0..n}

\* the lines of the documents that are read: a document may also define a
\* metadata key of the name the engine uses for the line number
ReadAlphabet == LineAlphabet \cup {Md("@lineNo", "7")}

ReadStreamsUpTo(n) == UNION {[1..m -> ReadAlphabet] : m \in 0..n}

\* the document of the test ExtCSVLoader.defaultPreparsingValid (scenario S2)
tstSDCTest1 ==
    <<Blank, Md("runs", "100-500"), Md("type", "TestType1"),
      Md("columns", "b, c"), Blank, Row("1   4.56"), Blank,
      Row("2 7.89"), Blank, Row("3   0.12"), Blank,
      Md("runs", "500-1000"), Md("type", "TestType1"),
      Md("columns", "a, b, c"), Blank, Row("1   4.56    0.12"),
      Row("2   7.89 7.89"), Blank, Row("3   0.12    4.56")>>

\* iLoader() : defaults {"", {unset, unset}, MetaInfo()}
NoDefaults ==
    [dataType |-> "", validityRange |-> UnsetRange,
     baseMD |-> [entries |-> {}, aliases |-> {}, cache |-> {}]]

StreamDefaults ==
    {[NoDefaults EXCEPT !.dataType = t, !.validityRange = rr] :
        t \in {"", "A"}, rr \in {UnsetRange, [from |-> 1, to |-> unset]}}

\* an ExtCSVLoader with its grammar and defaults; handles is the set of
\* document identifiers its can_handle accepts
CSVLoader(g, d, handles) ==
    [kind |-> "csv", grammar |-> g, defaults |-> d, handles |-> handles]

InitPre ==
    /\ types = [t \in {} |-> <<>>]
    /\ hist = <<>>
    /\ loaders \in {<<CSVLoader(g, d, {})>> :
                       g \in {DefaultGrammar, TaglessGrammar},
                       d \in StreamDefaults}
    /\ stream \in StreamsUpTo(MaxLines) \cup {tstSDCTest1}
    /\ res = NoRes

\* l.get_doc_struct(iss)
GetDocStruct ==
    /\ res = NoRes
    /\ \E st \in {get_doc_struct(loaders[1].grammar, loaders[1].defaults,
                                  stream)} :
         res' = [op |-> "get_doc_struct", err |-> st.err,
                 errLine |-> st.errLine,
                 blocks |-> IF st.err = "none" THEN st.r ELSE <<>>]
    /\ UNCHANGED <<types, hist, loaders, stream>>

NextPre == GetDocStruct

SpecPre == InitPre /\ [][NextPre]_vars

\* the defaults of the loader that reads: none, a type and a range, and
\* these with a baseline entry of the key "columns"
ReadDefaults ==
    {NoDefaults,
     [NoDefaults EXCEPT !.dataType = "A",
                        !.validityRange = [from |-> 1, to |-> unset]],
     [NoDefaults EXCEPT !.dataType = "A",
                        !.validityRange = [from |-> 1, to |-> unset],
                        !.baseMD.entries = {<<"columns", 0, "base">>}]}

InitRead ==
    /\ types = [t \in {} |-> <<>>]
    /\ hist = <<>>
    /\ loaders \in {<<CSVLoader(DefaultGrammar, d, {})>> : d \in ReadDefaults}
    /\ stream \in ReadStreamsUpTo(MaxReadLines)
    /\ res = NoRes

RowLines(lines) == {i \in 1..Len(lines) : lines[i].k = "row"}

\* the reader callbacks: one that takes every row, and those that return
\* false for the row of one line
Callbacks(lines) ==
    {[n \in 0..9 |-> "true"]}
    \cup {[n \in 0..9 |-> IF n = i THEN "false" ELSE "true"] :
             i \in RowLines(lines)}

\* l.read_data(iss, k, forType, acceptCSVFromLine, cllb)
ReadData ==
    /\ res = NoRes
    /\ \E k \in 1..MaxKey, forType \in {"A", "B"},
          acceptFrom \in 0..Len(stream), cllb \in Callbacks(stream) :
         \E st \in {read_data(loaders[1].grammar, loaders[1].defaults,
                               stream, k, forType, acceptFrom, cllb)} :
            res' = [op |-> "read_data", key |-> k, forType |-> forType,
                    acceptFrom |-> acceptFrom, cllb |-> cllb,
                    err |-> st.err, asserted |-> st.asserted,
                    out |-> st.out]
    /\ UNCHANGED <<types, hist, loaders, stream>>

NextRead == ReadData

SpecRead == InitRead /\ [][NextRead]_vars

(***************************************************************************)
(* Claims about the grammar engine                                         *)
(***************************************************************************)
TheGrammar == loaders[1].grammar

TheDefaults == loaders[1].defaults

\* the line is a validity-range or data-type metadata line of the grammar
IsBlockMd(ln) ==
    /\ ln.k = "md"
    /\ \/ (TheGrammar.metadataKeyTag # "" /\ ln.key = TheGrammar.metadataKeyTag)
       \/ (TheGrammar.metadataTypeTag # ""
           /\ ln.key = TheGrammar.metadataTypeTag)

\* the data row of line i is the first one after the document start or
\* after a validity-range / data-type line
OpensBlock(i) ==
    /\ i \in RowLines(stream)
    /\ \/ \A j \in 1..(i - 1) : j \notin RowLines(stream)
       \/ \E j \in 1..(i - 1) :
             /\ IsBlockMd(stream[j])
             /\ \A m \in (j + 1)..(i - 1) : m \notin RowLines(stream)

TypeLinesBefore(i) ==
    {j \in 1..(i - 1) : /\ stream[j].k = "md"
                        /\ TheGrammar.metadataTypeTag # ""
                        /\ stream[j].key = TheGrammar.metadataTypeTag}

RangeLinesBefore(i) ==
    {j \in 1..(i - 1) : /\ stream[j].k = "md"
                        /\ TheGrammar.metadataKeyTag # ""
                        /\ stream[j].key = TheGrammar.metadataKeyTag}

TypeInForce(i) ==
    IF TypeLinesBefore(i) = {} THEN TheDefaults.dataType
    ELSE stream[Max(TypeLinesBefore(i))].val

RangeInForce(i) ==
    IF RangeLinesBefore(i) = {} THEN TheDefaults.validityRange
    ELSE RangeFromString(stream[Max(RangeLinesBefore(i))].val).rr

BlockStarts == {i \in 1..Len(stream) : OpensBlock(i)}

\* C8: indexing emits exactly one DataBlock per group of data rows that
\* follows the document start or a validity-range/data-type line, in document
\* order, each with the type and range in force at its first data row; the
\* test document gives the two blocks [100,501) and [500,1001)
C8_OneBlockPerGroup ==
    (res.op = "get_doc_struct" /\ res.err = "none") =>
        /\ {res.blocks[n].blockBgn : n \in 1..Len(res.blocks)} = BlockStarts
        /\ Len(res.blocks) = Cardinality(BlockStarts)
        /\ \A n, m \in 1..Len(res.blocks) :
              n < m => res.blocks[n].blockBgn < res.blocks[m].blockBgn
        /\ \A n \in 1..Len(res.blocks) :
              /\ res.blocks[n].dataType = TypeInForce(res.blocks[n].blockBgn)
              /\ res.blocks[n].validityRange
                    = RangeInForce(res.blocks[n].blockBgn)
        /\ (stream = tstSDCTest1 /\ TheGrammar = DefaultGrammar) =>
              res.blocks =
                <<[dataType |-> "TestType1", blockBgn |-> 6,
                   validityRange |-> [from |-> 100, to |-> 501]],
                  [dataType |-> "TestType1", blockBgn |-> 16,
                   validityRange |-> [from |-> 500, to |-> 1001]]>>

\* the test document was indexed into its two blocks
C8_Witness ==
    /\ res.op = "get_doc_struct" /\ stream = tstSDCTest1
    /\ TheGrammar = DefaultGrammar
    /\ Len(res.blocks) = 2

\* the block starts at which the type or the range in force is missing
BadStarts ==
    {i \in BlockStarts :
        \/ TypeInForce(i) = ""
        \/ ~ (is_set(RangeInForce(i).from) \/ is_set(RangeInForce(i).to))}

\* C10: indexing fails at the first block start without a data type in force
\* (no-data-type) or, the type being there, without any bound of the range in
\* force (no-validity-range); otherwise it succeeds; a document without data
\* rows raises neither
C10_BlockStartErrors ==
    (res.op = "get_doc_struct" /\ res.err # "ParserError") =>
        /\ BadStarts = {} => res.err = "none"
        /\ BadStarts # {} =>
              /\ res.errLine = Min(BadStarts)
              /\ res.err = IF TypeInForce(Min(BadStarts)) = ""
                           THEN "NoDataTypeDefined" ELSE "NoValidityRange"
        /\ RowLines(stream) = {} => res.err = "none"

\* the document gave the type but no range, the loader's default range is
\* unset, and the indexing failed at the first data row for the range
C10_Witness ==
    /\ res.op = "get_doc_struct" /\ res.err = "NoValidityRange"
    /\ TheDefaults.dataType = ""
    /\ res.errLine \in BlockStarts
    /\ TypeLinesBefore(res.errLine) # {}

\* the row of line i is accepted for the read observed in res
Accepted(i) ==
    /\ i \in RowLines(stream)
    /\ TypeInForce(i) = res.forType
    /\ ~ (is_set(RangeInForce(i).from) /\ res.key < RangeInForce(i).from)
    /\ ~ (is_set(RangeInForce(i).to) /\ RangeInForce(i).to <= res.key)

AcceptedFromMarker ==
    {i \in RowLines(stream) : i >= res.acceptFrom /\ Accepted(i)}

\* the rows of the first accepted block at or after the start marker
FirstAcceptedBlock ==
    IF AcceptedFromMarker = {} THEN {}
    ELSE {j \in RowLines(stream) :
            /\ j >= Min(AcceptedFromMarker)
            /\ \A m \in Min(AcceptedFromMarker)..j : ~ IsBlockMd(stream[m])}

OutLines == {res.out[n].line : n \in 1..Len(res.out)}

AllTrue == [n \in 0..9 |-> "true"]

\* C9: a single-block read with a callback that takes every row forwards
\* exactly the rows of the first block accepted for (for_type, for_key) at or
\* after the start marker; blocks before it that are not accepted do not end
\* the read
C9_FirstAcceptedBlockRead ==
    (res.op = "read_data" /\ res.cllb = AllTrue /\ res.err = "none"
        /\ ~ res.asserted) =>
        OutLines = FirstAcceptedBlock

\* the key of the read lies in the range, an unset bound being no bound
KeyInside(rr) ==
    /\ is_set(rr.from) => rr.from <= res.key
    /\ is_set(rr.to) => res.key < rr.to

\* C27: every row that read_data hands to the callback lies at or after
\* the start marker and was read with the type for_type and a range that
\* holds for_key in force, both by the lines of the document and by what
\* the engine had as current type and range at the call; the rows are
\* handed over in strictly increasing line order
C27_ForwardedRowsAccepted ==
    res.op = "read_data" =>
        /\ \A n \in 1..Len(res.out) :
              /\ res.out[n].line \in AcceptedFromMarker
              /\ res.out[n].type = res.forType
              /\ KeyInside(res.out[n].validity)
              /\ res.out[n].type = TypeInForce(res.out[n].line)
              /\ res.out[n].validity = RangeInForce(res.out[n].line)
        /\ \A n, m \in 1..Len(res.out) :
              n < m => res.out[n].line < res.out[m].line

\* a row was handed over, and a row before the start marker that the type
\* and the range in force accept was not
C27_Witness ==
    /\ res.op = "read_data" /\ Len(res.out) >= 1
    /\ \E i \in RowLines(stream) :
          i < res.acceptFrom /\ Accepted(i) /\ i \notin OutLines

\* a row at the start marker, of the type of the read and of a range that
\* does not hold the key, was not handed over
C27_WitnessGated ==
    /\ res.op = "read_data" /\ res.err = "none"
    /\ \E i \in RowLines(stream) :
          /\ i >= res.acceptFrom /\ i \notin OutLines
          /\ TypeInForce(i) = res.forType
          /\ ~ KeyInside(RangeInForce(i))

\* the line for which the callback of the read returns false, 0 if none
FalseLine ==
    IF \E i \in 1..9 : res.cllb[i] = "false"
    THEN CHOOSE i \in 1..9 : res.cllb[i] = "false"
    ELSE 0

\* the rows below the line, in its block: no validity-range or data-type
\* line lies between
LaterRowsOfBlock(i) ==
    {j \in RowLines(stream) :
        j > i /\ \A m \in i..j : ~ IsBlockMd(stream[m])}

\* C29: a callback that returns false for a row only skips that row: the
\* rows of the block below it are handed to the callback as well
C29_FalseSkipsRowOnly ==
    (res.op = "read_data" /\ res.err = "none" /\ FalseLine \in OutLines) =>
        LaterRowsOfBlock(FalseLine) \subseteq OutLines

\* C30: a callback that returns false for a row ends the reading of the
\* block: no row of the block below it is handed to the callback
C30_FalseHaltsBlock ==
    (res.op = "read_data" /\ res.err = "none" /\ FalseLine \in OutLines) =>
        LaterRowsOfBlock(FalseLine) \cap OutLines = {}

(***************************************************************************)
(* Documents: the controller with its loaders and its validity index.      *)
(* A MetaInfo is [entries, aliases, cache]: entries the set of              *)
(* <<name, lineNo, value>> of the multimap, aliases the set of              *)
(* <<alias, true name>>, cache the set of <<name, lineNo, typed value>> of  *)
(* _cache for the one type the model reads values as, std::string          *)
(***************************************************************************)
\* MetaInfo(const MetaInfo & o) : Parent(o) {}
CopyMeta(o) == [entries |-> o.entries, aliases |-> {}, cache |-> {}]

\* mutation: the assignment inserts without clear()
AssignMeta_no_clear(this, o) ==
    [entries |-> this.entries \cup o.entries, aliases |-> this.aliases,
     cache |-> {}]

\* MetaInfo::operator=
AssignMeta(this, o) ==
    [entries |-> o.entries, aliases |-> this.aliases, cache |-> {}]

\* MetaInfo::resolve_alias_if_need
resolve_alias_if_need(mi, name) ==
    IF \E al \in mi.aliases : al[1] = name
    THEN (CHOOSE al \in mi.aliases : al[1] = name)[2]
    ELSE name

\* MetaInfo::set
SetMeta(mi, name, value, lineNo) ==
    [mi EXCEPT !.entries =
        MdSet(@, resolve_alias_if_need(mi, name), value, lineNo)]

\* MetaInfo::drop: the cache rows and the entries whose name is the
\* argument as it was given
DropMeta(mi, name) ==
    [mi EXCEPT !.entries = MdDrop(@, name),
               !.cache = {k \in @ : k[1] # name}]

\* MetaInfo::define_alias: what it returns and the environment after it
\* (_revAliases is the inverse of _aliases and is not kept apart)
define_alias(mi, aliasName, trueName_) ==
    IF \E al \in mi.aliases : al[1] = aliasName
    THEN [ret |-> (CHOOSE al \in mi.aliases : al[1] = aliasName)[2]
                      = resolve_alias_if_need(mi, trueName_),
          mi |-> mi]
    ELSE [ret |-> TRUE,
          mi |-> [mi EXCEPT !.aliases =
                     @ \cup {<<aliasName,
                               resolve_alias_if_need(mi, trueName_)>>}]]

\* MetaInfo::operator[] : the entries of the resolved name.  The std::map
\* it returns keeps one value per line, the first in the iteration order
\* of the multimap, which is not specified: each is a possible one
ValuesOf(mi, name_) ==
    {e \in mi.entries : e[1] = resolve_alias_if_need(mi, name_)}

\* mutation: the entries of the greatest line below lineNo
FoundBelow(vs, lineNo) ==
    {e \in vs : e[2] < lineNo
                /\ \A f \in vs : f[2] < lineNo => f[2] <= e[2]}

\* what reverse_iterator(vs.upper_bound(lineNo)) points to: the entries of
\* the greatest line that is not above lineNo
FoundAt(vs, lineNo) ==
    {e \in vs : e[2] <= lineNo
                /\ \A f \in vs : f[2] <= lineNo => f[2] <= e[2]}

\* MetaInfo::get_strexpr(name_, lineNo, &foundLineNo): its possible outcomes
get_strexpr(mi, name_, lineNo) ==
    IF ValuesOf(mi, name_) = {}
    THEN {[err |-> "NoMetadataEntryInFile", value |-> "", line |-> 0]}
    ELSE IF FoundAt(ValuesOf(mi, name_), lineNo) = {}
         THEN {[err |-> "NoCurrentMetadataEntry", value |-> "", line |-> 0]}
         ELSE {[err |-> "none", value |-> e[3], line |-> e[2]] :
                  e \in FoundAt(ValuesOf(mi, name_), lineNo)}

\* the row of _cache for the key (name, lFound, typeid(std::string))
CachedAt(mi, name, lFound) ==
    {k \in mi.cache : k[1] = name /\ k[2] = lFound}

\* MetaInfo::get<std::string>(name_, lineNo) after get_strexpr gave s: the
\* value is cast and cached under the resolved name and the line found,
\* or the cached row is returned; a build with assertions stops when the
\* cached row differs from the cast of the text that was found
get_cached(mi, name, s) ==
    IF CachedAt(mi, name, s.line) = {}
    THEN {[err |-> "none", value |-> s.value, line |-> s.line,
           mi |-> [mi EXCEPT !.cache = @ \cup {<<name, s.line, s.value>>}]]}
    ELSE {[err |-> IF k[3] = s.value \/ ndebug THEN "none" ELSE "assert",
           value |-> k[3], line |-> s.line, mi |-> mi] :
             k \in CachedAt(mi, name, s.line), ndebug \in BOOLEAN}

\* MetaInfo::get<std::string>(name_, lineNo): its possible outcomes, each
\* with the environment it leaves
get(mi, name_, lineNo) ==
    UNION {IF s.err # "none"
           THEN {[err |-> s.err, value |-> "", line |-> 0, mi |-> mi]}
           ELSE get_cached(mi, resolve_alias_if_need(mi, name_), s) :
             s \in get_strexpr(mi, name_, lineNo)}

\* MetaInfo::get<std::string>(name_, default_, lineNo): its possible
\* outcomes
get_default(mi, name_, default_, lineNo) ==
    IF FoundAt(ValuesOf(mi, name_), lineNo) = {}
    THEN {[err |-> "none", value |-> default_, line |-> 0, mi |-> mi]}
    ELSE get(mi, name_, lineNo)

\* the copy of iLoader::Defaults (member-wise)
CopyDefaults(d) ==
    [dataType |-> d.dataType, validityRange |-> d.validityRange,
     baseMD |-> CopyMeta(d.baseMD)]

\* the assignment of iLoader::Defaults (member-wise)
AssignDefaults(this, o) ==
    [dataType |-> o.dataType, validityRange |-> o.validityRange,
     baseMD |-> AssignMeta(this.baseMD, o.baseMD)]

\* CalibDataTraits<T>::typeName of the record type that is loaded
typeName == "T"

\* the local files, by document identifier
Files ==
    [d \in {"one", "two", "three", "plain", "typed", "broken", "empty",
            "badrow", "throws", "inverted", "longrow", "mixed"} |->
       CASE d = "one" -> <<Md("runs", "6-..."), Row("3 4"),
                           Md("runs", "1-..."), Row("0 0")>>
         [] d = "two" -> <<Md("runs", "2"), Row("0 1"),
                           Md("runs", "5-..."), Row("0 2")>>
         [] d = "three" -> <<Md("runs", "3-..."), Row("1 0")>>
         [] d = "plain" -> <<Row("1 1")>>
         [] d = "typed" -> <<Md("type", "T"), Md("runs", "1-..."), Row("1 0"),
                             Md("runs", "2-..."), Row("0 2")>>
         [] d = "broken" -> <<Md("type", "T"), Md("runs", "...-1"),
                              Row("1 1")>>
         [] d = "empty" -> <<Md("type", "T")>>
         [] d = "badrow" -> <<Row("x y")>>
         [] d = "longrow" -> <<Row("long y")>>
         [] d = "inverted" -> <<Md("type", "T"), Md("runs", "2-1"),
                                Row("1 1")>>
         [] d = "mixed" -> <<Md("runs", "1-..."), Row("1 0"),
                             Md("type", "U"), Row("0 1"),
                             Md("type", "T"), Md("runs", "2-1"), Row("0 2"),
                             Md("runs", "1-..."), Row("1 1")>>
         [] d = "throws" -> <<Row("throw")>>]

\* the documents an ExtCSVLoader is asked for; "missing" is not a file
CSVDocs == DOMAIN Files \cup {"missing"}

\* the documents of a loader of another implementation of iLoader
DbDocs == {"db:notype", "db:two", "db:fail", "db:gone"}

Block(type, from, to, bgn) ==
    [dataType |-> type, validityRange |-> [from |-> from, to |-> to],
     blockBgn |-> bgn]

\* defaults.baseMD.set("@docID", docID, 0)
WithDocID(d, docID) == [d EXCEPT !.baseMD = SetMeta(@, "@docID", docID, 0)]

\* defaults.baseMD.drop("@docID", 0), which an exception passes over
DocIDDropped(d, err) ==
    IF err # "none" THEN d ELSE [d EXCEPT !.baseMD = DropMeta(@, "@docID")]

\* what get_doc_struct(docID) gives: the error, the blocks, and the
\* loader's defaults when it returns or throws; st is the state of the pass
StructOf(d1, st) ==
    [err |-> st.err, blocks |-> IF st.err # "none" THEN <<>> ELSE st.r,
     defaults |-> DocIDDropped(d1, st.err)]

csv_struct(g, d1, docID) == StructOf(d1, get_doc_struct(g, d1, Files[docID]))

\* ExtCSVLoader::get_doc_struct(const std::string & docID)
csv_get_doc_struct(l, docID) ==
    IF docID \notin DOMAIN Files
    THEN [err |-> "IOError", blocks |-> <<>>, defaults |-> l.defaults]
    ELSE csv_struct(l.grammar, WithDocID(l.defaults, docID), docID)

\* iLoader::get_doc_struct of the other implementation: what it returns or
\* throws for each of its documents
db_get_doc_struct(l, docID) ==
    CASE docID = "db:notype" ->
           [err |-> "none", blocks |-> <<Block("", 1, unset, 0)>>,
            defaults |-> l.defaults]
      [] docID = "db:two" ->
           [err |-> "none",
            blocks |-> <<Block(typeName, 1, unset, 0),
                         Block(typeName, unset, unset, 1)>>,
            defaults |-> l.defaults]
      [] docID = "db:gone" ->
           [err |-> "none", blocks |-> <<Block(typeName, 1, unset, 0)>>,
            defaults |-> l.defaults]
      [] OTHER ->
           [err |-> "OtherError", blocks |-> <<>>, defaults |-> l.defaults]

\* loader->get_doc_struct(docID)
loader_get_doc_struct(l, docID) ==
    IF l.kind = "csv" THEN csv_get_doc_struct(l, docID)
    ELSE db_get_doc_struct(l, docID)

\* the type, the range and the metadata entries a read starts with
Seed(d) ==
    [dataType |-> d.dataType, validityRange |-> d.validityRange,
     entries |-> d.baseMD.entries]

\* what read_data(docID, ...) gives: the error, the calls of the callback,
\* the defaults the read started with and the loader's defaults after it
ReadOf(d1, st) ==
    [err |-> st.err, out |-> st.out, seed |-> Seed(d1),
     defaults |-> DocIDDropped(d1, st.err), rowAsserted |-> st.rowAsserted]

csv_read(g, d1, lines, k, forType, acceptCSVFromLine, cllb) ==
    ReadOf(d1, read_data(g, d1, lines, k, forType, acceptCSVFromLine, cllb))

\* ExtCSVLoader::read_data(const std::string & docID, ...): a file that
\* cannot be opened is an empty stream
csv_read_data(l, docID, k, forType, acceptCSVFromLine, cllb) ==
    csv_read(l.grammar, WithDocID(l.defaults, docID),
             IF docID \in DOMAIN Files THEN Files[docID] ELSE <<>>,
             k, forType, acceptCSVFromLine, cllb)

\* iLoader::read_data of the other implementation: the source of "db:gone"
\* cannot be read any more, the other documents have no rows
db_read_data(l, docID, k, forType, acceptFrom, cllb) ==
    [err |-> IF docID = "db:gone" THEN "IOError" ELSE "none", out |-> <<>>,
     seed |-> Seed(l.defaults), defaults |-> l.defaults,
     rowAsserted |-> FALSE]

\* loaderPtr->read_data(docID, forKey, typeName, dataBlockBgn, cllb)
loader_read_data(l, docID, k, forType, acceptFrom, cllb) ==
    IF l.kind = "csv"
    THEN csv_read_data(l, docID, k, forType, acceptFrom, cllb)
    ELSE db_read_data(l, docID, k, forType, acceptFrom, cllb)

\* iLoader::can_handle as the loader's class overrides it
can_handle(l, docID) == docID \in l.handles

\* mutation: the last loader that can handle the document is taken
LastLoader(ls, docID) ==
    IF \E i \in 1..Len(ls) : can_handle(ls[i], docID)
    THEN Max({i \in 1..Len(ls) : can_handle(ls[i], docID)})
    ELSE 0

\* the first loader of the list that can handle the document, 0 for none
FirstLoader(ls, docID) ==
    IF \E i \in 1..Len(ls) : can_handle(ls[i], docID)
    THEN Min({i \in 1..Len(ls) : can_handle(ls[i], docID)})
    ELSE 0

EntryCount(ts) ==
    Cardinality(UNION {{<<t, i>> : i \in 1..Len(ts[t])} : t \in DOMAIN ts})

\* mutation: the entry keeps default-constructed defaults
DocumentLoadingState_fresh(defaults, loader, blockBgn) ==
    [docDefaults |-> NoDefaults, loader |-> loader,
     dataBlockBgn |-> blockBgn]

\* DocumentLoadingState{loader->defaults, loader, block.blockBgn}
DocumentLoadingState(defaults, loader, blockBgn) ==
    [docDefaults |-> CopyDefaults(defaults), loader |-> loader,
     dataBlockBgn |-> blockBgn]

\* the loop of Documents::add over the blocks of the document, from block i
RECURSIVE add_blocks(_, _, _, _, _, _)
add_blocks(ts, docID, docStruct, i, defaults, loader) ==
    IF i > Len(docStruct) THEN [err |-> "none", ts |-> ts]
    ELSE LET block == docStruct[i]
         IN IF block.dataType = ""
            THEN [err |-> "LoaderAPIError", ts |-> ts]
            ELSE IF ~ (is_set(block.validityRange.from)
                       \/ is_set(block.validityRange.to))
                 THEN [err |-> "LoaderAPIError", ts |-> ts]
                 ELSE add_blocks(
                        add_entry(ts, docID, block.dataType,
                                  block.validityRange.from,
                                  block.validityRange.to,
                                  DocumentLoadingState(defaults, loader,
                                                       block.blockBgn),
                                  EntryCount(ts) + 1),
                        docID, docStruct, i + 1, defaults, loader)

\* the loader's defaults with the overrides of a call of add
Override(d, defaultType, defaultValidity, mi) ==
    LET d1 == IF defaultType.first
              THEN [d EXCEPT !.dataType = defaultType.second] ELSE d
        d2 == IF defaultValidity.first
              THEN [d1 EXCEPT !.validityRange = defaultValidity.second]
              ELSE d1
    IN IF mi.first THEN [d2 EXCEPT !.baseMD = AssignMeta(@, mi.second)]
       ELSE d2

\* mutation: add gives true whenever it does not raise
add_exit_true(ls, h, prevDfts, g, b) ==
    [ret |-> b.err = "none", err |-> b.err,
     loaders |-> [ls EXCEPT
                     ![h].defaults = AssignDefaults(g.defaults, prevDfts)],
     ts |-> b.ts, loader |-> h, called |-> <<h>>, blocks |-> g.blocks]

\* the end of Documents::add: b is what the loop over the blocks gave, g
\* what get_doc_struct gave; every exit path assigns prevDfts to
\* loader->defaults
add_exit(ls, h, prevDfts, g, b) ==
    [ret |-> b.err = "none" /\ g.blocks # <<>>, err |-> b.err,
     loaders |-> [ls EXCEPT
                     ![h].defaults = AssignDefaults(g.defaults, prevDfts)],
     ts |-> b.ts, loader |-> h, called |-> <<h>>, blocks |-> g.blocks]

\* Documents::add after loader->get_doc_struct(docID), g being its result
add_struct(ls, ts, docID, h, prevDfts, g) ==
    add_exit(ls, h, prevDfts, g,
             IF g.err # "none" THEN [err |-> g.err, ts |-> ts]
             ELSE add_blocks(ts, docID, g.blocks, 1, g.defaults, h))

\* Documents::add with the loader h chosen
add_with(ls, ts, docID, defaultType, defaultValidity, mi, h) ==
    add_struct(ls, ts, docID, h, CopyDefaults(ls[h].defaults),
               loader_get_doc_struct(
                   [ls[h] EXCEPT !.defaults =
                       Override(@, defaultType, defaultValidity, mi)],
                   docID))

\* Documents::add(docID, defaultType, defaultValidity, mi)
add(ls, ts, docID, defaultType, defaultValidity, mi) ==
    IF FirstLoader(ls, docID) = 0
    THEN [ret |-> FALSE, err |-> "none", loaders |-> ls, ts |-> ts,
          loader |-> 0, called |-> <<>>, blocks |-> <<>>]
    ELSE add_with(ls, ts, docID, defaultType, defaultValidity, mi,
                  FirstLoader(ls, docID))

\* the text of what() of an error and its length in characters
NoMsg == [text |-> "", len |-> 0]

\* the length of the first token of the row "long y"
LongTokenLen == 600

\* CalibDataTraits<T>::parse_line for the record type of two numbers: a
\* token that is not a number is a RuntimeError of lexical_cast; the traits
\* are user code and may throw anything else
parse_line(expression) ==
    CASE expression = "0 0" -> [err |-> "none", a |-> 0, b |-> 0, msg |-> NoMsg]
      [] expression = "0 1" -> [err |-> "none", a |-> 0, b |-> 1, msg |-> NoMsg]
      [] expression = "0 2" -> [err |-> "none", a |-> 0, b |-> 2, msg |-> NoMsg]
      [] expression = "1 0" -> [err |-> "none", a |-> 1, b |-> 0, msg |-> NoMsg]
      [] expression = "1 1" -> [err |-> "none", a |-> 1, b |-> 1, msg |-> NoMsg]
      [] expression = "3 4" -> [err |-> "none", a |-> 3, b |-> 4, msg |-> NoMsg]
      [] expression = "throw" ->
           [err |-> "OtherError", a |-> 0, b |-> 0,
            msg |-> [text |-> "vector::_M_range_check", len |-> 22]]
      [] expression = "long y" ->
           [err |-> "RuntimeError", a |-> 0, b |-> 0,
            msg |-> [text |-> "stoi(): no conversion can be performed, long",
                     len |-> 42 + LongTokenLen]]
      [] OTHER ->
           [err |-> "RuntimeError", a |-> 0, b |-> 0,
            msg |-> [text |-> "stoi(): no conversion can be performed, x",
                     len |-> 43]]

\* CalibData() : a(0), b(0); rows is the list of the collected rows
NewDest == [a |-> 0, b |-> 0, rows |-> <<>>]

\* mutation: a value that is there is kept
collect_keep(c, entry, docID, lineNo) ==
    [a |-> IF c.a > 0 THEN c.a ELSE entry.a,
     b |-> IF c.b > 0 THEN c.b ELSE entry.b,
     rows |-> Append(c.rows, <<docID, lineNo>>)]

\* CalibDataTraits<T>::collect
collect(c, entry, docID, lineNo) ==
    [a |-> IF entry.a > 0 THEN entry.a ELSE c.a,
     b |-> IF entry.b > 0 THEN entry.b ELSE c.b,
     rows |-> Append(c.rows, <<docID, lineNo>>)]

\* what the callback of load_update_into does with the outcome of
\* parse_line and collect
Thrown(p) ==
    CASE p.err = "none" -> "true"
      [] p.err = "RuntimeError" -> "ParserError"
      [] OTHER -> p.err

\* what the callback of load_update_into does for the row of each line of
\* the document: a RuntimeError of parse_line or collect is rethrown as
\* NestedError<ParserError>, anything else passes, otherwise it returns true
LoadCallback(docID) ==
    [n \in 0..9 |->
        IF docID \in DOMAIN Files /\ n \in 1..Len(Files[docID])
        THEN Thrown(parse_line(Files[docID][n].val))
        ELSE "true"]

\* dest after the calls of the callback in `out' from call i on, p being
\* what parse_line gives for call i
RECURSIVE CollectedFrom(_, _, _, _, _)
CollectedFrom(dest, docID, out, i, p) ==
    IF p.err # "none" THEN dest
    ELSE IF i = Len(out) THEN collect(dest, p, docID, out[i].line)
    ELSE CollectedFrom(collect(dest, p, docID, out[i].line), docID, out,
                       i + 1, parse_line(out[i + 1].text))

Collected(dest, docID, out, i) ==
    IF i > Len(out) THEN dest
    ELSE CollectedFrom(dest, docID, out, i, parse_line(out[i].text))

\* strncpy(_e2What, e2.what(), sizeof(_e2What)-1) of NestedError
NestedWhat(msg) ==
    IF msg.len <= 511 THEN msg ELSE [text |-> "(cut)", len |-> 511]

NoInfo == [docID |-> "", lineNo |-> 0, nested |-> NoMsg]

\* meta.get<size_t>("@lineNo", max, max) in the callback, md being the
\* entries of the environment passed to it
LineNoOf(md) ==
    IF LineNoSeen(md) = {} THEN 0
    ELSE SizeFromString(CHOOSE v \in LineNoSeen(md) : TRUE).v

\* what the error of the callback carries, c being the call that threw and
\* p what parse_line and collect gave: a RuntimeError is nested in a
\* ParserError with the document and the line, anything else passes as it is
CallbackInfo(docID, c, p) ==
    IF p.err = "RuntimeError"
    THEN [docID |-> docID, lineNo |-> LineNoOf(c.md),
          nested |-> NestedWhat(p.msg)]
    ELSE NoInfo

\* what the error leaving load_update_into carries: the error of the
\* callback is the one of the last call; a ParserError or an IOError of the
\* loader gets the document where it has none
ErrorInfo(upd, r) ==
    IF r.err = "none" THEN NoInfo
    ELSE IF r.out # <<>>
            /\ Thrown(parse_line(r.out[Len(r.out)].text)) = r.err
         THEN CallbackInfo(upd.docID, r.out[Len(r.out)],
                           parse_line(r.out[Len(r.out)].text))
         ELSE IF r.err \in {"ParserError", "IOError"}
              THEN [NoInfo EXCEPT !.docID = upd.docID]
              ELSE NoInfo

\* what the read of one update is observed to be
ReadRecord(upd, r) ==
    [sn |-> upd.sn, docID |-> upd.docID, seed |-> r.seed, out |-> r.out,
     err |-> r.err, rowAsserted |-> r.rowAsserted]

\* mutation: the defaults are put back only when the read returns
read_exit_leak(ls, upd, dest, h, dftsBck, r) ==
    [err |-> r.err, dest |-> Collected(dest, upd.docID, r.out, 1),
     loaders |-> [ls EXCEPT ![h].defaults =
                     IF r.err = "none" THEN AssignDefaults(r.defaults, dftsBck)
                     ELSE r.defaults],
     read |-> ReadRecord(upd, r), info |-> ErrorInfo(upd, r)]

\* the end of Documents::load_update_into, r being what read_data gave:
\* every exit path assigns dftsBck to loaderPtr->defaults
read_exit(ls, upd, dest, h, dftsBck, r) ==
    [err |-> r.err, dest |-> Collected(dest, upd.docID, r.out, 1),
     loaders |-> [ls EXCEPT
                     ![h].defaults = AssignDefaults(r.defaults, dftsBck)],
     read |-> ReadRecord(upd, r), info |-> ErrorInfo(upd, r)]

\* Documents::load_update_into<T>(upd, dest, forKey)
load_update_into(ls, upd, dest, forKey) ==
    read_exit(ls, upd, dest, upd.auxInfo.loader,
              CopyDefaults(ls[upd.auxInfo.loader].defaults),
              loader_read_data(
                  [ls[upd.auxInfo.loader] EXCEPT !.defaults =
                      AssignDefaults(@, upd.auxInfo.docDefaults)],
                  upd.docID, forKey, typeName, upd.auxInfo.dataBlockBgn,
                  LoadCallback(upd.docID)))

\* the loop of Documents::load after the read of update i, r being what
\* load_update_into gave: an exception ends the loop
RECURSIVE load_next(_, _, _, _, _, _)
load_next(us, i, key, reads, ls, r) ==
    IF r.err # "none" \/ i = Len(us)
    THEN [err |-> r.err, dest |-> r.dest, loaders |-> r.loaders,
          reads |-> Append(reads, r.read), info |-> r.info]
    ELSE load_next(us, i + 1, key, Append(reads, r.read), r.loaders,
                   load_update_into(r.loaders, us[i + 1], r.dest, key))

\* the loop of Documents::load over the updates
load_loop(ls, us, dest, key) ==
    IF us = <<>>
    THEN [err |-> "none", dest |-> dest, loaders |-> ls, reads |-> <<>>,
          info |-> NoInfo]
    ELSE load_next(us, 1, key, <<>>, ls,
                   load_update_into(ls, us[1], dest, key))

Reverse(s) == [i \in 1..Len(s) |-> s[Len(s) + 1 - i]]

\* mutation: the updates are read from the last to the first
load_updates_reversed(ls, key, u) ==
    IF u.err # "none"
    THEN [err |-> u.err, dest |-> NewDest, loaders |-> ls, reads |-> <<>>,
          info |-> NoInfo]
    ELSE load_loop(ls, Reverse(u.us), NewDest, key)

\* Documents::load after validityIndex.updates(...), u being its result
load_updates(ls, key, u) ==
    IF u.err # "none"
    THEN [err |-> u.err, dest |-> NewDest, loaders |-> ls, reads |-> <<>>,
          info |-> NoInfo]
    ELSE load_loop(ls, u.us, NewDest, key)

\* Documents::load<T>(key, noTypeIsOk)
load(ls, ts, key, noTypeIsOk) ==
    load_updates(ls, key, updates(ts, typeName, key, noTypeIsOk))

\* what get_latest gives, r being the result of its one read
LatestRead(r) ==
    [err |-> r.err, dest |-> r.dest, loaders |-> r.loaders,
     reads |-> <<r.read>>, info |-> r.info]

\* Documents::get_latest after validityIndex.latest(...), u being its result
get_latest_of(ls, key, u) ==
    IF u.err # "none"
    THEN [err |-> u.err, dest |-> NewDest, loaders |-> ls, reads |-> <<>>,
          info |-> NoInfo]
    ELSE LatestRead(load_update_into(ls, u.upd, NewDest, key))

\* Documents::get_latest<T>(key)
get_latest(ls, ts, key) == get_latest_of(ls, key, latest(ts, typeName, key))

(***************************************************************************)
(* Specification of the controller: documents are added with overrides,    *)
(* the user code changes the public defaults of the first loader, and a    *)
(* behaviour ends with one load                                            *)
(***************************************************************************)
EmptyMeta == [entries |-> {}, aliases |-> {}, cache |-> {}]

\* values of the public field `defaults' of the first loader
LiveDefaults ==
    {NoDefaults,
     [dataType |-> typeName, validityRange |-> [from |-> 1, to |-> unset],
      baseMD |-> [entries |-> {<<"k", 0, "v">>},
                  aliases |-> {<<"al", "k">>}, cache |-> {}]],
     [dataType |-> "U", validityRange |-> [from |-> 2, to |-> unset],
      baseMD |-> EmptyMeta]}

\* a loader of another implementation of iLoader
DbLoader ==
    [kind |-> "db", grammar |-> DefaultGrammar, defaults |-> NoDefaults,
     handles |-> DbDocs \cup {"plain"}]

S1Docs == {"one", "two", "three"}

\* the documents of several blocks of one type, with blocks of another type
\* and of an empty range between them
MixedDocs == {"mixed", "one", "two"}

\* the arguments of add: pairs (given, value)
TypeOverrides ==
    {[first |-> FALSE, second |-> ""], [first |-> TRUE, second |-> typeName]}

ValidityOverrides ==
    {[first |-> FALSE, second |-> UnsetRange],
     [first |-> TRUE, second |-> [from |-> 1, to |-> unset]]}

MetaOverrides ==
    {[first |-> FALSE, second |-> EmptyMeta],
     [first |-> TRUE,
      second |-> [entries |-> {<<"src", 0, "ovr">>}, aliases |-> {},
                  cache |-> {}]]}

NoOverride == [first |-> FALSE, second |-> ""]

DefaultsOf(ls) == [i \in 1..Len(ls) |-> ls[i].defaults]

Loaded == res.op \in {"load", "get_latest"}

InitDocs ==
    /\ types = [t \in {} |-> <<>>]
    /\ hist = <<>>
    /\ loaders \in {<<CSVLoader(DefaultGrammar, d, CSVDocs \ (S1Docs \cup MixedDocs)),
                      DbLoader>> : d \in LiveDefaults}
    /\ stream = NoStream
    /\ res = NoRes

\* l.defaults = d in the user code
SetDefaults ==
    /\ ~ Loaded
    /\ \E d \in LiveDefaults :
         /\ d # loaders[1].defaults
         /\ loaders' = [loaders EXCEPT ![1].defaults = d]
    /\ res' = [op |-> "defaults"]
    /\ UNCHANGED <<types, hist, stream>>

\* a call of add on the documents `docs' with overrides of the given sets;
\* hist keeps the calls that changed the index, with the entries they made
AddOf(docs, tos, vos, mos, maxAdds) ==
    /\ ~ Loaded
    /\ Len(hist) < maxAdds
    /\ \E docID \in docs, defaultType \in tos, defaultValidity \in vos,
          mi \in mos :
         \E r \in {add(loaders, types, docID, defaultType, defaultValidity,
                        mi)} :
            /\ types' = r.ts
            /\ loaders' = r.loaders
            /\ hist' = IF r.ts = types THEN hist
                       ELSE Append(hist,
                              [docID |-> docID, loader |-> r.loader,
                               defaultType |-> defaultType,
                               defaultValidity |-> defaultValidity,
                               mi |-> mi,
                               before |-> loaders[r.loader].defaults,
                               sns |-> (EntryCount(types) + 1)
                                          ..EntryCount(r.ts)])
            /\ res' = [op |-> "add", ret |-> r.ret, err |-> r.err,
                       before |-> DefaultsOf(loaders), docID |-> docID,
                       loader |-> r.loader, called |-> r.called,
                       blocks |-> r.blocks,
                       added |-> (EntryCount(types) + 1)..EntryCount(r.ts)]
    /\ UNCHANGED stream

Add ==
    AddOf((CSVDocs \ (S1Docs \cup MixedDocs)) \cup DbDocs \cup {"ignore me"}, TypeOverrides,
          ValidityOverrides, MetaOverrides, MaxAdds)

\* load<T>(key, noTypeIsOk) for the keys up to maxKey
LoadOf(maxKey) ==
    /\ ~ Loaded
    /\ \E key \in 1..maxKey, noTypeIsOk \in BOOLEAN :
         \E r \in {load(loaders, types, key, noTypeIsOk)} :
            /\ loaders' = r.loaders
            /\ res' = [op |-> "load", key |-> key, err |-> r.err,
                       dest |-> r.dest, reads |-> r.reads, info |-> r.info,
                       before |-> DefaultsOf(loaders)]
    /\ UNCHANGED <<types, hist, stream>>

Load == LoadOf(MaxKey)

\* get_latest<T>(key)
GetLatest ==
    /\ ~ Loaded
    /\ \E key \in 1..MaxKey :
         \E r \in {get_latest(loaders, types, key)} :
            /\ loaders' = r.loaders
            /\ res' = [op |-> "get_latest", key |-> key, err |-> r.err,
                       dest |-> r.dest, reads |-> r.reads, info |-> r.info,
                       before |-> DefaultsOf(loaders)]
    /\ UNCHANGED <<types, hist, stream>>

NextDocs == SetDefaults \/ Add \/ Load \/ GetLatest

SpecDocs == InitDocs /\ [][NextDocs]_vars

(***************************************************************************)
(* Specification of the incremental loading scenario: one loader with the  *)
(* default type T, the documents one, two and three                        *)
(***************************************************************************)
InitS1 ==
    /\ types = [t \in {} |-> <<>>]
    /\ hist = <<>>
    /\ loaders = <<CSVLoader(DefaultGrammar,
                             [NoDefaults EXCEPT !.dataType = typeName],
                             S1Docs)>>
    /\ stream = NoStream
    /\ res = NoRes

AddS1 == AddOf(S1Docs, {NoOverride},
               {[first |-> FALSE, second |-> UnsetRange]},
               {[first |-> FALSE, second |-> EmptyMeta]}, MaxS1Adds)

LoadS1 == LoadOf(MaxS1Key)

NextS1 == AddS1 \/ LoadS1

SpecS1 == InitS1 /\ [][NextS1]_vars

(***************************************************************************)
(* Specification of the controller with the documents of several blocks:   *)
(* one ExtCSVLoader whose default type is the type that is loaded          *)
(***************************************************************************)
InitMixed ==
    /\ types = [t \in {} |-> <<>>]
    /\ hist = <<>>
    /\ loaders = <<CSVLoader(DefaultGrammar,
                             [NoDefaults EXCEPT !.dataType = typeName],
                             MixedDocs)>>
    /\ stream = NoStream
    /\ res = NoRes

AddMixed == AddOf(MixedDocs, {NoOverride},
                  {[first |-> FALSE, second |-> UnsetRange]},
                  {[first |-> FALSE, second |-> EmptyMeta]}, MaxS1Adds)

LoadMixed == LoadOf(MaxS1Key)

NextMixed == AddMixed \/ LoadMixed \/ GetLatest

SpecMixed == InitMixed /\ [][NextMixed]_vars

C17_WitnessOwnKey ==
    /\ res.op = "read_data" /\ Len(res.out) = 2
    /\ \E e \in res.out[1].md : e[1] = "@lineNo" /\ e[2] > 0

\* the keys of the metadata lines of the document and of the baseline
\* entries, the key that the engine sets for the line number apart
DocKeys ==
    ({stream[j].key : j \in {j \in 1..Len(stream) : stream[j].k = "md"}}
        \cup {e[1] : e \in TheDefaults.baseMD.entries}) \ {"@lineNo"}

\* the metadata lines of a key above the line
KeyLinesBefore(key, lineNo) ==
    {j \in 1..(lineNo - 1) : stream[j].k = "md" /\ stream[j].key = key}

\* what the lookup of the key must give at a row of the line
Persisted(key, lineNo) ==
    IF KeyLinesBefore(key, lineNo) # {}
    THEN {[err |-> "none",
           value |-> stream[Max(KeyLinesBefore(key, lineNo))].val,
           line |-> Max(KeyLinesBefore(key, lineNo))]}
    ELSE get_strexpr(TheDefaults.baseMD, key, lineNo)

C28_WitnessBaseline ==
    /\ res.op = "read_data" /\ Len(res.out) >= 1
    /\ KeyLinesBefore("columns", res.out[1].line) = {}
    /\ <<"columns", 0, "base">> \in res.out[1].md

(***************************************************************************)
(* Specification of the validity ranges: a behaviour is one intersection   *)
(* of two ranges or one conversion of a text to a range                    *)
(***************************************************************************)
\* the ranges whose bounds are unset or keys up to MaxRangeKey, the ones
\* with from >= to included
Ranges == [from : 0..MaxRangeKey, to : 0..MaxRangeKey]

\* texts of ranges as they stand after "runs =" in a document
RangeTexts ==
    {"1-1", "1-2", "2-3", "2-1", "1-...", "2-...", "3-...", "5-...",
     "6-...", "...-1", "1", "2", "100-500", "500-1000", "...", "x", "1-x",
     "-1", "0-5", "0"}

InitRange ==
    /\ types = [t \in {} |-> <<>>]
    /\ hist = <<>>
    /\ loaders = NoLoaders
    /\ stream = NoStream
    /\ res = NoRes

\* a & b, and b & a
Intersect ==
    /\ res = NoRes
    /\ \E a \in Ranges, b \in Ranges :
         res' = [op |-> "intersect", a |-> a, b |-> b,
                 rr |-> intersect(a, b), rev |-> intersect(b, a)]
    /\ UNCHANGED <<types, hist, loaders, stream>>

\* lexical_cast< ValidityRange<T> >(text)
FromString ==
    /\ res = NoRes
    /\ \E text \in RangeTexts :
         \E r \in {RangeFromString(text)} :
            res' = [op |-> "from_string", text |-> text, err |-> r.err,
                    rr |-> r.rr]
    /\ UNCHANGED <<types, hist, loaders, stream>>

\* lexical_cast< ValidityRange<T> >(to_string(r)) of a range r that was
\* made from a text
RoundTrip ==
    /\ res = NoRes
    /\ \E text \in RangeTexts :
         \E r \in {RangeFromString(text)} :
            /\ r.err = "none"
            /\ \E b \in {RangeFromString(RangeToString(r.rr))} :
                  res' = [op |-> "round_trip", text |-> text, rr |-> r.rr,
                          str |-> RangeToString(r.rr), err |-> b.err,
                          back |-> b.rr]
    /\ UNCHANGED <<types, hist, loaders, stream>>

NextRange == Intersect \/ FromString \/ RoundTrip

SpecRange == InitRange /\ [][NextRange]_vars

(***************************************************************************)
(* Claims about the validity ranges                                        *)
(***************************************************************************)
\* the bounds of the two operands that are set
SetFroms == {x \in {res.a.from, res.b.from} : x # unset}

SetTos == {x \in {res.a.to, res.b.to} : x # unset}

\* C24: the intersection has as from the greater of the set from values of
\* the operands (unset when none is set) and as to the lesser of the set to
\* values (unset when none is set); a & b = b & a; the intersection with
\* the range of two unset bounds is the other operand
C24_Intersection ==
    res.op = "intersect" =>
        /\ res.rr.from = IF SetFroms = {} THEN unset ELSE Max(SetFroms)
        /\ res.rr.to = IF SetTos = {} THEN unset ELSE Min(SetTos)
        /\ res.rev = res.rr
        /\ res.b = UnsetRange => res.rr = res.a
        /\ res.a = UnsetRange => res.rr = res.b

\* two ranges of four different set bounds were intersected, each giving
\* one bound of the result
C24_Witness ==
    /\ res.op = "intersect"
    /\ res.a = [from |-> 1, to |-> 3] /\ res.b = [from |-> 2, to |-> unset]
    /\ res.rr = [from |-> 2, to |-> 3]

\* the key k is in the range r: from <= k < to, a bound that is unset being
\* no bound
Contains(r, k) ==
    /\ is_set(r.from) => ~ less(k, r.from)
    /\ is_set(r.to) => less(k, r.to)

C32_WitnessDisjoint ==
    /\ res.op = "intersect"
    /\ res.a = [from |-> 1, to |-> 2] /\ res.b = [from |-> 2, to |-> 3]
    /\ ~ NonEmpty(res.rr)

\* what a text says: its form and the values written in it
Written(text) ==
    CASE text = "1-1" -> [form |-> "F-T", f |-> 1, t |-> 1]
      [] text = "1-2" -> [form |-> "F-T", f |-> 1, t |-> 2]
      [] text = "2-3" -> [form |-> "F-T", f |-> 2, t |-> 3]
      [] text = "2-1" -> [form |-> "F-T", f |-> 2, t |-> 1]
      [] text = "100-500" -> [form |-> "F-T", f |-> 100, t |-> 500]
      [] text = "500-1000" -> [form |-> "F-T", f |-> 500, t |-> 1000]
      [] text = "1-..." -> [form |-> "F-...", f |-> 1, t |-> 0]
      [] text = "2-..." -> [form |-> "F-...", f |-> 2, t |-> 0]
      [] text = "3-..." -> [form |-> "F-...", f |-> 3, t |-> 0]
      [] text = "5-..." -> [form |-> "F-...", f |-> 5, t |-> 0]
      [] text = "6-..." -> [form |-> "F-...", f |-> 6, t |-> 0]
      [] text = "1" -> [form |-> "V", f |-> 1, t |-> 1]
      [] text = "2" -> [form |-> "V", f |-> 2, t |-> 2]
      [] text = "...-1" -> [form |-> "...", f |-> 0, t |-> 1]
      [] text = "..." -> [form |-> "...", f |-> 0, t |-> 0]
      [] OTHER -> [form |-> "other", f |-> 0, t |-> 0]

\* C25: the text F-T gives [F, T + 1), the text F-... gives [F, unset), a
\* single value V gives [V, V + 1), and a text whose from part is ... is
\* refused with a ParserError: the to that is stored is the successor of
\* the upper value that is written
C25_RangeFromString ==
    res.op = "from_string" =>
        /\ Written(res.text).form = "F-T" =>
              /\ res.err = "none"
              /\ res.rr = [from |-> Written(res.text).f,
                           to |-> Written(res.text).t + 1]
        /\ Written(res.text).form = "F-..." =>
              /\ res.err = "none"
              /\ res.rr = [from |-> Written(res.text).f, to |-> unset]
        /\ Written(res.text).form = "V" =>
              /\ res.err = "none"
              /\ res.rr = [from |-> Written(res.text).f,
                           to |-> Written(res.text).f + 1]
        /\ Written(res.text).form = "..." => res.err = "ParserError"

\* a text of two values was converted
C25_Witness ==
    /\ res.op = "from_string" /\ res.text = "100-500"
    /\ res.rr = [from |-> 100, to |-> 501]

\* a text with ... before the delimiter was refused
C25_WitnessLeftOpen ==
    /\ res.op = "from_string" /\ res.text = "...-1"
    /\ res.err = "ParserError"

\* C33: no text is converted to a range whose from is unset: every text
\* that from_string accepts, one that begins with the delimiter or whose from
\* part is empty or writes the unset value included, gives a range whose
\* from is set
C33_FromAlwaysSet ==
    (res.op = "from_string" /\ res.err = "none") => is_set(res.rr.from)

\* C34: for every range r made from a text, the text to_string(r) is
\* accepted by from_string and gives a range with the from of r and with
\* the to of r advanced once more, or unset when the to of r is unset
C34_RoundTrip ==
    res.op = "round_trip" =>
        /\ res.err = "none"
        /\ res.back.from = res.rr.from
        /\ res.back.to = IF is_set(res.rr.to) THEN advance(res.rr.to)
                         ELSE unset

(***************************************************************************)
(* Specification of the interpretation of a row by a columns directive     *)
(***************************************************************************)
ColumnsTexts == {"a, b, c", "b, c", "c,a", "a,b,a", "x"}

ColumnNames == {"a", "b", "c", "x", "z"}

\* the rows: up to MaxTokens tokens
TokenLists == UNION {[1..n -> {"1", "7"}] : n \in 0..MaxTokens}

\* interpret(tokens) of the directive, then the two accesses by a name
Interpret ==
    /\ res = NoRes
    /\ \E strexpr \in ColumnsTexts, toks \in TokenLists,
          name \in ColumnNames :
         \E r \in interpret(ColumnsOrder(tokenize(strexpr)), toks) :
            res' = [op |-> "interpret", columns |-> tokenize(strexpr),
                    toks |-> toks, err |-> r.err, col |-> r.col,
                    count |-> r.count, l |-> r.l, name |-> name,
                    at |-> IF r.err = "none" THEN csv_value(r.l, name)
                           ELSE [err |-> r.err, v |-> ""],
                    or |-> IF r.err = "none"
                           THEN csv_value_or(r.l, name, "dflt")
                           ELSE ""]
    /\ UNCHANGED <<types, hist, loaders, stream>>

NextColumns == Interpret

SpecColumns == InitRange /\ [][NextColumns]_vars

(***************************************************************************)
(* Claims about the columns directive                                      *)
(***************************************************************************)
\* the names of the directive and the zero-based index of a name (of its
\* last occurrence when it is written twice)
Directive == {res.columns[i] : i \in 1..Len(res.columns)}

IndexOfColumn(col) ==
    Max({i \in 1..Len(res.columns) : res.columns[i] = col}) - 1

\* the columns for which the row has no token
MissingColumns == {col \in Directive : IndexOfColumn(col) >= Len(res.toks)}

\* C26: interpret maps every name of the directive to the token at its
\* index; it fails, with a ParserError of a missing column and the number
\* of tokens, exactly when the row has no token at the index of some
\* column, further tokens being ignored; on the result the access by a
\* name outside the directive fails with NoColumnDefinedForTable and the
\* access with a default gives the default
C26_Interpret ==
    res.op = "interpret" =>
        /\ (res.err = "ParserError") <=> (MissingColumns # {})
        /\ res.err = "ParserError" =>
              res.col \in MissingColumns /\ res.count = Len(res.toks)
        /\ res.err # "ParserError" =>
              /\ res.err = "none"
              /\ DOMAIN res.l = Directive
              /\ \A col \in Directive :
                    res.l[col] = res.toks[IndexOfColumn(col) + 1]
              /\ res.name \notin Directive =>
                    /\ res.at.err = "NoColumnDefinedForTable"
                    /\ res.or = "dflt"
              /\ res.name \in Directive =>
                    res.at = [err |-> "none", v |-> res.l[res.name]]

\* a row of three tokens was interpreted by a directive of two columns and
\* a name outside the directive was asked for
C26_Witness ==
    /\ res.op = "interpret" /\ res.err = "none"
    /\ Len(res.toks) = 3 /\ res.columns = <<"b", "c">>
    /\ res.l["c"] = "7" /\ res.toks = <<"1", "7", "1">>
    /\ res.name = "a" /\ res.or = "dflt"

\* a row of one token was refused for a directive of two columns
C26_WitnessShort ==
    /\ res.op = "interpret" /\ res.err = "ParserError"
    /\ Len(res.toks) = 1 /\ res.columns = <<"b", "c">> /\ res.col = "c"

(***************************************************************************)
(* Specifications of the metadata environment: the environment is the      *)
(* baseMD of the defaults of a loader, which the user code reads and       *)
(* writes; hist keeps the calls of define_alias with what they returned    *)
(***************************************************************************)
TheMeta == loaders[1].defaults.baseMD

MetaNames == {"a", "c"}

MetaValues == {"u", "v"}

MetaLines == 0..MaxMetaLine

AliasNames == {"a", "b", "c"}

InitMeta ==
    /\ types = [t \in {} |-> <<>>]
    /\ hist = <<>>
    /\ loaders = <<CSVLoader(DefaultGrammar, NoDefaults, {})>>
    /\ stream = NoStream
    /\ res = NoRes

\* the lookups are const members; a behaviour ends with one lookup
Looked == res.op \in {"get_strexpr", "get_default"}

\* baseMD.set(name, value, lineNo)
MetaSet ==
    /\ ~ Looked
    /\ Cardinality(TheMeta.entries) < MaxMetaEntries
    /\ \E name \in MetaNames, value \in MetaValues, lineNo \in MetaLines :
         /\ loaders' = [loaders EXCEPT ![1].defaults.baseMD =
                           SetMeta(@, name, value, lineNo)]
         /\ res' = [op |-> "set"]
    /\ UNCHANGED <<types, hist, stream>>

\* baseMD.drop(name)
MetaDrop ==
    /\ ~ Looked
    /\ \E name \in MetaNames :
         /\ loaders' = [loaders EXCEPT ![1].defaults.baseMD =
                           DropMeta(@, name)]
         /\ res' = [op |-> "drop"]
    /\ UNCHANGED <<types, hist, stream>>

\* baseMD.define_alias(aliasName, trueName) for the names of the given
\* sets, maxCalls calls at most
AliasOf(aliases, trueNames, maxCalls) ==
    /\ ~ Looked
    /\ Len(hist) < maxCalls
    /\ \E aliasName \in aliases, trueName \in trueNames :
         \E r \in {define_alias(TheMeta, aliasName, trueName)} :
            /\ loaders' = [loaders EXCEPT ![1].defaults.baseMD = r.mi]
            /\ hist' = Append(hist, [alias |-> aliasName,
                                     canonical |-> trueName, ret |-> r.ret])
            /\ res' = [op |-> "define_alias", alias |-> aliasName,
                       canonical |-> trueName, ret |-> r.ret,
                       before |-> TheMeta]
    /\ UNCHANGED <<types, stream>>

MetaAlias == AliasOf({"a"}, {"c"}, MaxMetaAliases)

\* baseMD.get_strexpr(name, lineNo, &foundLineNo)
GetStrexpr ==
    /\ ~ Looked
    /\ \E name \in MetaNames, lineNo \in MetaLines :
         \E r \in get_strexpr(TheMeta, name, lineNo) :
            res' = [op |-> "get_strexpr", name |-> name, lineNo |-> lineNo,
                    err |-> r.err, value |-> r.value, line |-> r.line]
    /\ UNCHANGED <<types, hist, loaders, stream>>

\* baseMD.get<std::string>(name, "dflt", lineNo)
GetDefault ==
    /\ ~ Looked
    /\ \E name \in MetaNames, lineNo \in MetaLines :
         \E r \in get_default(TheMeta, name, "dflt", lineNo) :
            /\ res' = [op |-> "get_default", name |-> name,
                       lineNo |-> lineNo, err |-> r.err, value |-> r.value,
                       line |-> r.line]
            /\ loaders' = [loaders EXCEPT ![1].defaults.baseMD = r.mi]
    /\ UNCHANGED <<types, hist, stream>>

NextMeta == MetaSet \/ MetaDrop \/ MetaAlias \/ GetStrexpr \/ GetDefault

SpecMeta == InitMeta /\ [][NextMeta]_vars

\* the calls of define_alias alone, over all pairs of names
DefineAlias == AliasOf(AliasNames, AliasNames, MaxAliasCalls)

NextAlias == DefineAlias

SpecAlias == InitMeta /\ [][NextAlias]_vars

(***************************************************************************)
(* Specification of one environment with aliases, entries and typed        *)
(* lookups: hist keeps the calls of define_alias, res the last call        *)
(***************************************************************************)
EnvLines == {0, 1}

\* the value that is set on a line: each line has its own
EnvValue == [lineNo \in EnvLines |-> IF lineNo = 0 THEN "u" ELSE "v"]

\* a call define_alias(n, m) or define_alias(m, n) is recorded as succeeded
Aliased(n, m) ==
    \E i \in 1..Len(hist) :
        hist[i].ret /\ {hist[i].alias, hist[i].canonical} = {n, m}

\* the last call when it was a set, for the lookup that follows it
LastSet == IF res.op = "set" THEN res ELSE NoRes

\* baseMD.set(name, EnvValue[lineNo], lineNo)
EnvSet ==
    /\ Cardinality(TheMeta.entries) < MaxEnvEntries
    /\ \E name \in MetaNames, lineNo \in EnvLines :
         /\ loaders' = [loaders EXCEPT ![1].defaults.baseMD =
                           SetMeta(@, name, EnvValue[lineNo], lineNo)]
         /\ res' = [op |-> "set", name |-> name,
                    value |-> EnvValue[lineNo], lineNo |-> lineNo]
    /\ UNCHANGED <<types, hist, stream>>

\* baseMD.drop(name)
EnvDrop ==
    /\ TheMeta.entries # {}
    /\ \E name \in AliasNames :
         /\ loaders' = [loaders EXCEPT ![1].defaults.baseMD =
                           DropMeta(@, name)]
         /\ res' = [op |-> "drop", name |-> name, before |-> TheMeta]
    /\ UNCHANGED <<types, hist, stream>>

\* baseMD.define_alias(aliasName, trueName); hist keeps one record of each
\* pair of names for which the call succeeded
EnvAlias ==
    /\ \E aliasName \in {"a", "c"}, trueName \in {"b", "c"} :
         \E r \in {define_alias(TheMeta, aliasName, trueName)} :
            /\ loaders' = [loaders EXCEPT ![1].defaults.baseMD = r.mi]
            /\ hist' = IF r.ret /\ ~ Aliased(aliasName, trueName)
                       THEN Append(hist, [alias |-> aliasName,
                                          canonical |-> trueName,
                                          ret |-> r.ret])
                       ELSE hist
            /\ res' = [op |-> "define_alias", alias |-> aliasName,
                       canonical |-> trueName, ret |-> r.ret,
                       before |-> TheMeta]
    /\ UNCHANGED <<types, stream>>

\* baseMD.get<std::string>(name, lineNo)
EnvGet ==
    /\ res.op # "get"
    /\ \E name \in AliasNames, lineNo \in EnvLines :
         \E r \in get(TheMeta, name, lineNo) :
            /\ loaders' = [loaders EXCEPT ![1].defaults.baseMD = r.mi]
            /\ res' = [op |-> "get", name |-> name, lineNo |-> lineNo,
                       err |-> r.err, value |-> r.value, line |-> r.line,
                       set |-> LastSet]
    /\ UNCHANGED <<types, hist, stream>>

NextEnv == EnvSet \/ EnvDrop \/ EnvAlias \/ EnvGet

SpecEnv == InitMeta /\ [][NextEnv]_vars

(***************************************************************************)
(* Specification of an environment and its copy: the environments of two   *)
(* loaders, the second being made a copy of the first by the copy          *)
(* constructor or by the assignment; hist keeps the names of the calls     *)
(***************************************************************************)
TheCopy == loaders[2].defaults.baseMD

EnvOf(i) == loaders[i].defaults.baseMD

InitCopy ==
    /\ types = [t \in {} |-> <<>>]
    /\ hist = <<>>
    /\ loaders = <<CSVLoader(DefaultGrammar, NoDefaults, {}),
                   CSVLoader(DefaultGrammar, NoDefaults, {})>>
    /\ stream = NoStream
    /\ res = NoRes

\* a call on the environment i that leaves it as mi; the other environment
\* as it was before the call is kept with the result
CallOn(i, op, mi) ==
    /\ loaders' = [loaders EXCEPT ![i].defaults.baseMD = mi]
    /\ hist' = Append(hist, op)
    /\ res' = [op |-> op, env |-> i, other |-> EnvOf(3 - i)]
    /\ UNCHANGED <<types, stream>>

\* set(name, EnvValue[lineNo], lineNo) on one of the two
CopySet ==
    /\ Len(hist) < MaxCopyCalls
    /\ \E i \in {1, 2}, name \in MetaNames, lineNo \in EnvLines :
         CallOn(i, "set", SetMeta(EnvOf(i), name, EnvValue[lineNo], lineNo))

\* drop(name) on one of the two
CopyDrop ==
    /\ Len(hist) < MaxCopyCalls
    /\ \E i \in {1, 2}, name \in MetaNames :
         CallOn(i, "drop", DropMeta(EnvOf(i), name))

\* define_alias("a", "c") on one of the two
CopyAlias ==
    /\ Len(hist) < MaxCopyCalls
    /\ \E i \in {1, 2} :
         CallOn(i, "define_alias", define_alias(EnvOf(i), "a", "c").mi)

\* get<std::string>(name, lineNo) on one of the two
CopyGet ==
    /\ Len(hist) < MaxCopyCalls
    /\ \E i \in {1, 2}, name \in MetaNames, lineNo \in EnvLines :
         \E r \in get(EnvOf(i), name, lineNo) : CallOn(i, "get", r.mi)

\* MetaInfo copy(original): the second environment is a new object
CopyConstruct ==
    /\ Len(hist) < MaxCopyCalls
    /\ CallOn(2, "copy", CopyMeta(TheMeta))

\* copy = original
CopyAssign ==
    /\ Len(hist) < MaxCopyCalls
    /\ CallOn(2, "assign", AssignMeta(TheCopy, TheMeta))

NextCopy ==
    CopySet \/ CopyDrop \/ CopyAlias \/ CopyGet \/ CopyConstruct \/ CopyAssign

SpecCopy == InitCopy /\ [][NextCopy]_vars

(***************************************************************************)
(* Specification of the typed lookups of one environment whose lines are   *)
(* set more than once: res keeps the last call, and for a lookup the text  *)
(* get_strexpr gave to it                                                  *)
(***************************************************************************)
\* baseMD.set(name, value, lineNo)
CacheSet ==
    /\ Cardinality(TheMeta.entries) < MaxEnvEntries
    /\ \E name \in MetaNames, value \in MetaValues, lineNo \in EnvLines :
         /\ loaders' = [loaders EXCEPT ![1].defaults.baseMD =
                           SetMeta(@, name, value, lineNo)]
         /\ res' = [op |-> "set", name |-> name, value |-> value,
                    lineNo |-> lineNo]
    /\ UNCHANGED <<types, hist, stream>>

\* baseMD.drop(name)
CacheDrop ==
    /\ TheMeta.entries # {}
    /\ \E name \in MetaNames :
         /\ loaders' = [loaders EXCEPT ![1].defaults.baseMD =
                           DropMeta(@, name)]
         /\ res' = [op |-> "drop", name |-> name]
    /\ UNCHANGED <<types, hist, stream>>

\* baseMD.get<std::string>(name, lineNo): raw is the text of get_strexpr
\* in this call
CacheGet ==
    /\ \E name \in MetaNames, lineNo \in EnvLines :
         \E s \in get_strexpr(TheMeta, name, lineNo) :
            \E r \in IF s.err # "none"
                     THEN {[err |-> s.err, value |-> "", line |-> 0,
                            mi |-> TheMeta]}
                     ELSE get_cached(TheMeta,
                                     resolve_alias_if_need(TheMeta, name),
                                     s) :
               /\ loaders' = [loaders EXCEPT ![1].defaults.baseMD = r.mi]
               /\ res' = [op |-> "get", name |-> name, lineNo |-> lineNo,
                          err |-> r.err, value |-> r.value, line |-> r.line,
                          found |-> (s.err = "none"), raw |-> s.value,
                          set |-> LastSet]
    /\ UNCHANGED <<types, hist, stream>>

NextCache == CacheSet \/ CacheDrop \/ CacheGet

SpecCache == InitMeta /\ [][NextCache]_vars

(***************************************************************************)
(* Claims about the metadata environment                                   *)
(***************************************************************************)
\* the name a lookup under res.name reads: the canonical name of an alias
Canonical ==
    IF \E al \in TheMeta.aliases : al[1] = res.name
    THEN (CHOOSE al \in TheMeta.aliases : al[1] = res.name)[2]
    ELSE res.name

\* the entries of that name, and those of them defined at or before the line
EntriesOfName == {e \in TheMeta.entries : e[1] = Canonical}

Current == {e \in EntriesOfName : e[2] <= res.lineNo}

\* C19: get_strexpr(name, L) returns the value and the line of an entry of
\* the name with the greatest line <= L; it fails with
\* NoMetadataEntryInFile when the name has no entry and with
\* NoCurrentMetadataEntry when all its entries are after L; the lookup with
\* a default returns the default in these two cases
C19_LatestAtOrBefore ==
    /\ res.op = "get_strexpr" =>
          /\ EntriesOfName = {} => res.err = "NoMetadataEntryInFile"
          /\ (EntriesOfName # {} /\ Current = {}) =>
                res.err = "NoCurrentMetadataEntry"
          /\ Current # {} =>
                /\ res.err = "none"
                /\ <<Canonical, res.line, res.value>> \in Current
                /\ \A e \in Current : e[2] <= res.line
    /\ res.op = "get_default" =>
          /\ res.err = "none"
          /\ Current = {} => res.value = "dflt"
          /\ Current # {} =>
                /\ <<Canonical, res.line, res.value>> \in Current
                /\ \A e \in Current : e[2] <= res.line

\* of two entries of a name, at line 0 and at the last line, the lookup for
\* a line between them returned the one of line 0
C19_Witness ==
    /\ res.op = "get_strexpr" /\ res.err = "none"
    /\ res.lineNo = 1 /\ res.line = 0
    /\ \E e \in EntriesOfName : e[2] > res.lineNo

\* the lookup with a default gave the default for a name defined later only
C19_WitnessDefault ==
    /\ res.op = "get_default" /\ res.value = "dflt"
    /\ EntriesOfName # {} /\ Current = {}

\* the lookup failed for a name defined later only
C19_WitnessNoCurrent ==
    /\ res.op = "get_strexpr" /\ res.err = "NoCurrentMetadataEntry"

\* C20: a define_alias call that succeeded once succeeds again and changes
\* nothing when it is repeated, whatever define_alias calls lie between;
\* a call fails only when the alias is bound to another canonical name,
\* and then the environment is left as it was
C20_DefineAliasIdempotent ==
    res.op = "define_alias" =>
        /\ (\E i \in 1..(Len(hist) - 1) :
               /\ hist[i].alias = res.alias
               /\ hist[i].canonical = res.canonical
               /\ hist[i].ret)
             => (res.ret /\ TheMeta = res.before)
        /\ ~ res.ret =>
              /\ \E al \in res.before.aliases :
                    al[1] = res.alias /\ al[2] # res.canonical
              /\ TheMeta = res.before

\* C21: once define_alias(a, c) has succeeded, the value that was just set
\* under one of the two names for a line is what the lookup under the other
\* name gives for that line (no entry of another value being on the line)
C21_AliasBothWays ==
    (/\ res.op = "get" /\ res.set.op = "set"
     /\ res.lineNo = res.set.lineNo
     /\ Aliased(res.name, res.set.name)
     /\ \A e \in TheMeta.entries :
           e[2] = res.lineNo => e[3] = res.set.value)
    => (/\ res.err = "none"
        /\ res.value = res.set.value
        /\ res.line = res.lineNo)

\* the names that are read as the name n is read
SameAs(mi, n) ==
    {m \in AliasNames :
        resolve_alias_if_need(mi, m) = resolve_alias_if_need(mi, n)}

\* C22: after drop(name), name canonical or an alias, no lookup under the
\* name or under a name of the same canonical name finds an entry, for any
\* line; no cache row of the canonical name is left; the entries of the
\* other names are as they were
C22_DropByAnyName ==
    res.op = "drop" =>
        /\ \A m \in SameAs(TheMeta, res.name), lineNo \in EnvLines :
              \A r \in get_strexpr(TheMeta, m, lineNo) :
                 r.err = "NoMetadataEntryInFile"
        /\ \A k \in TheMeta.cache :
              k[1] # resolve_alias_if_need(TheMeta, res.name)
        /\ \A e \in res.before.entries :
              e[1] # resolve_alias_if_need(TheMeta, res.name)
                 => e \in TheMeta.entries

\* C23: a copy made by the copy constructor or by the assignment has the
\* entries of the original, resolves every name as the original does and
\* gives the result of the original for every lookup; its typed cache is
\* empty; a later set, drop or get on one of the two leaves the other as it
\* was
C23_CopyIsEqual ==
    /\ res.op \in {"copy", "assign"} =>
          /\ TheCopy.entries = TheMeta.entries
          /\ TheCopy.cache = {}
          /\ \A n \in AliasNames :
                /\ resolve_alias_if_need(TheCopy, n)
                      = resolve_alias_if_need(TheMeta, n)
                /\ \A lineNo \in EnvLines :
                      get_strexpr(TheCopy, n, lineNo)
                         = get_strexpr(TheMeta, n, lineNo)
    /\ res.op \in {"set", "drop", "get"} => EnvOf(3 - res.env) = res.other

\* C31: after any sequence of set, drop and get calls on one environment,
\* several set calls for one name and one line included, a typed lookup
\* get<T>(name, L) ends normally and returns the cast of the text that
\* get_strexpr(name, L) gives at that moment; stated for the lookup that
\* follows a set of the name it reads, on the line it finds
C31_CacheCoherent ==
    (/\ res.op = "get" /\ res.found
     /\ res.set.op = "set"
     /\ res.set.name = res.name /\ res.set.lineNo = res.line) =>
        /\ res.err = "none"
        /\ res.value = res.raw

(***************************************************************************)
(* Claims about the controller                                             *)
(***************************************************************************)
AllEntries == UNION {Range(types[t]) : t \in DOMAIN types}

EntryOf(sn) == CHOOSE e \in AllEntries : e.sn = sn

\* the documents of the calls of add that made entries
AddedDocs == {hist[i].docID : i \in 1..Len(hist)}

\* the value parsed from the row of a line of a file
RowValue(row) == parse_line(Files[row[1]][row[2]].val)

\* the last value above 0 of field a (of field b) in a list of rows
LastA(rows) ==
    LET S == {i \in 1..Len(rows) : RowValue(rows[i]).a > 0}
    IN IF S = {} THEN 0 ELSE RowValue(rows[Max(S)]).a

LastB(rows) ==
    LET S == {i \in 1..Len(rows) : RowValue(rows[i]).b > 0}
    IN IF S = {} THEN 0 ELSE RowValue(rows[Max(S)]).b

\* the rows forwarded by the reads of a load, in the order of the reads
RECURSIVE RowsOfReads(_, _)
RowsOfReads(reads, i) ==
    IF i > Len(reads) THEN <<>>
    ELSE [n \in 1..Len(reads[i].out) |->
             <<reads[i].docID, reads[i].out[n].line>>]
         \o RowsOfReads(reads, i + 1)

\* the values of the scenario for the keys 1..6 (and what holds from 6 on)
ExpectedS1(key) ==
    CASE key = 1 -> <<0, 0>>
      [] key = 2 -> <<0, 1>>
      [] key = 3 -> <<1, 0>>
      [] key = 4 -> <<1, 0>>
      [] key = 5 -> <<1, 2>>
      [] OTHER -> <<3, 4>>

\* C3: load<T>(key) reads the updates in the order updates(T, key) returns
\* them and collects their rows in that order, a later update overriding an
\* earlier one; with the documents one, two and three of the scenario the
\* keys 1..6 give {0,0},{0,1},{1,0},{1,0},{1,2},{3,4}
C3_LoadInUpdateOrder ==
    (res.op = "load" /\ res.err = "none") =>
        LET us == updates(types, typeName, res.key, TRUE).us
        IN /\ Len(res.reads) = Len(us)
           /\ \A i \in 1..Len(us) : res.reads[i].sn = us[i].sn
           /\ res.dest.rows = RowsOfReads(res.reads, 1)
           /\ res.dest.a = LastA(res.dest.rows)
           /\ res.dest.b = LastB(res.dest.rows)
           /\ AddedDocs = S1Docs =>
                 <<res.dest.a, res.dest.b>> = ExpectedS1(res.key)

\* the three documents are indexed and the load at key 5 read three updates
C3_Witness ==
    /\ res.op = "load" /\ res.err = "none" /\ res.key = 5
    /\ AddedDocs = S1Docs
    /\ Len(res.reads) = 3
    /\ <<res.dest.a, res.dest.b>> = <<1, 2>>

\* C5: however add ends (true, false, or any error) and whatever overrides
\* it got, the defaults of every loader after the call are the defaults
\* before the call
C5_AddRestoresDefaults ==
    res.op = "add" => DefaultsOf(loaders) = res.before

\* an add with all three overrides put an entry in the index and then
\* raised the loader-api error
C5_Witness ==
    /\ res.op = "add" /\ res.err = "LoaderAPIError"
    /\ hist # <<>>
    /\ hist[Len(hist)].defaultType.first
    /\ hist[Len(hist)].defaultValidity.first
    /\ hist[Len(hist)].mi.first
    /\ hist[Len(hist)].sns # {}

\* the type, the range and the metadata entries of a defaults record,
\* without the entry the loader adds for the time of a call
Fields(d) ==
    [dataType |-> d.dataType, validityRange |-> d.validityRange,
     entries |-> MdDrop(d.baseMD.entries, "@docID")]

SeedFields(seed) ==
    [dataType |-> seed.dataType, validityRange |-> seed.validityRange,
     entries |-> MdDrop(seed.entries, "@docID")]

\* C6: each update is read with the defaults saved in its entry in place of
\* the loader's live ones, and when load or get_latest ends (normally or
\* with an error of the loader or of the row callback) the defaults of
\* every loader are what they were before
C6_ScopedDefaults ==
    Loaded =>
        /\ DefaultsOf(loaders) = res.before
        /\ \A i \in 1..Len(res.reads) :
              SeedFields(res.reads[i].seed)
                  = Fields(EntryOf(res.reads[i].sn).auxInfo.docDefaults)

\* a load ended with an error that is not of the library, thrown by the row
\* callback, while the live defaults differed from the saved ones
C6_Witness ==
    /\ res.op = "load" /\ res.err = "OtherError"
    /\ res.reads # <<>>
    /\ Fields(EntryOf(res.reads[1].sn).auxInfo.docDefaults)
          # Fields(loaders[1].defaults)
    /\ loaders[1].defaults.baseMD.aliases # {}

\* the call of add that made the entry
AddOfEntry(sn) == hist[CHOOSE i \in 1..Len(hist) : sn \in hist[i].sns]

\* C7: an entry made by add keeps the loader's defaults as overridden for
\* that call; load reads the document with these defaults whatever the live
\* defaults are; so the first row of each block indexed from a file is
\* forwarded for every key of the block's range that load is asked for
C7_StoredDefaultsUsed ==
    /\ \A e \in AllEntries :
          Fields(e.auxInfo.docDefaults)
              = Fields(Override(AddOfEntry(e.sn).before,
                                AddOfEntry(e.sn).defaultType,
                                AddOfEntry(e.sn).defaultValidity,
                                AddOfEntry(e.sn).mi))
    /\ (res.op = "load" /\ res.err = "none") =>
          \A i \in 1..Len(res.reads) :
             LET e == EntryOf(res.reads[i].sn)
             IN /\ SeedFields(res.reads[i].seed)
                      = Fields(e.auxInfo.docDefaults)
                /\ loaders[e.auxInfo.loader].kind = "csv" =>
                      \E n \in 1..Len(res.reads[i].out) :
                         /\ res.reads[i].out[n].line = e.auxInfo.dataBlockBgn
                         /\ res.reads[i].out[n].type = typeName
                         /\ res.reads[i].out[n].validity
                               = [from |-> e.from, to |-> e.validTo]

\* the document without metadata lines was indexed with the type and the
\* range of the overrides, the live defaults at the load have no type, and
\* its row was forwarded
C7_Witness ==
    /\ res.op = "load" /\ res.err = "none"
    /\ loaders[1].defaults = NoDefaults
    /\ \E i \in 1..Len(res.reads) :
          /\ res.reads[i].docID = "plain"
          /\ AddOfEntry(res.reads[i].sn).defaultType.first
          /\ AddOfEntry(res.reads[i].sn).defaultValidity.first
          /\ AddOfEntry(res.reads[i].sn).before.dataType # typeName
          /\ res.reads[i].out # <<>>

\* a range that is not non-empty: both bounds set and from >= to
EmptyRange(from, to) == is_set(from) /\ is_set(to) /\ from >= to

\* C13: after any calls of add every entry of the validity index has a
\* non-empty range: never both bounds set and from >= to
C13_EntriesNonEmpty ==
    \A e \in AllEntries : ~ EmptyRange(e.from, e.validTo)

BadBlock(block) ==
    \/ block.dataType = ""
    \/ EmptyRange(block.validityRange.from, block.validityRange.to)

\* C14: when a block returned by get_doc_struct has an empty type or an
\* empty range, add fails with LoaderAPIError and none of the entries the
\* call made is for such a block
C14_BadBlockRejected ==
    (res.op = "add" /\ \E i \in 1..Len(res.blocks) : BadBlock(res.blocks[i]))
        => /\ res.err = "LoaderAPIError"
           /\ \A t \in DOMAIN types : \A e \in Range(types[t]) :
                 e.sn \in res.added =>
                    t # "" /\ ~ EmptyRange(e.from, e.validTo)

\* the loaders, in registration order, that accept the document of the call
Accepting == {i \in 1..Len(loaders) : res.docID \in loaders[i].handles}

\* C15: add without an explicit loader uses the first loader in registration
\* order whose can_handle is true, also when a later one accepts as well;
\* when none accepts, add returns false, calls no get_doc_struct and
\* leaves the index as it was
C15_FirstAcceptingLoader ==
    res.op = "add" =>
        /\ Accepting # {} =>
              /\ res.loader \in Accepting
              /\ \A i \in Accepting : res.loader <= i
              /\ res.called = <<res.loader>>
        /\ Accepting = {} =>
              /\ res.ret = FALSE /\ res.err = "none"
              /\ res.called = <<>>
              /\ res.added = {}

\* a document both loaders accept was read by the first and indexed
C15_Witness ==
    /\ res.op = "add" /\ Cardinality(Accepting) = 2
    /\ res.loader = 1 /\ res.ret /\ res.added # {}

\* no loader accepted the document
C15_WitnessNone ==
    /\ res.op = "add" /\ Accepting = {} /\ ~ res.ret

\* C16: an add that returns without raising returns true exactly when the
\* call entered at least one block in the index; a document without blocks
\* gives false and no entry
C16_TrueIffIndexed ==
    (res.op = "add" /\ res.err = "none") =>
        /\ res.ret <=> res.added # {}
        /\ res.blocks = <<>> => (~ res.ret /\ res.added = {})
        /\ \A sn \in res.added : \E e \in AllEntries :
               e.sn = sn /\ e.docID = res.docID

\* a loader accepted the document, found no block in it, and add gave false
C16_Witness ==
    /\ res.op = "add" /\ res.err = "none" /\ res.called # <<>>
    /\ res.blocks = <<>> /\ ~ res.ret

\* an add gave true after entering two blocks
C16_WitnessTrue ==
    /\ res.op = "add" /\ res.err = "none" /\ res.ret
    /\ Cardinality(res.added) = 2

\* the last read of a load and the last row it forwarded
LastRead == res.reads[Len(res.reads)]

LastCall == LastRead.out[Len(LastRead.out)]

\* the load ended at a row that parse_line or collect did not take
RowFailed ==
    /\ res.op \in {"load", "get_latest"}
    /\ res.reads # <<>> /\ LastRead.out # <<>>
    /\ parse_line(LastCall.text).err # "none"

\* C18: when parsing or collecting a row fails with any kind of error, the
\* error that leaves load is a ParserError that carries the document
\* identifier and the line number of the row and keeps the message of the
\* underlying error
C18_RowErrorWrapped ==
    RowFailed =>
        /\ res.err = "ParserError"
        /\ res.info.docID = LastRead.docID
        /\ res.info.lineNo = LastCall.line
        /\ res.info.nested = parse_line(LastCall.text).msg

\* the entries of the type t after a step that were in the index before it
KeptEntries(t) ==
    SelectSeq(types'[t], LAMBDA e : e.sn <= EntryCount(types))

\* the entry the step made for the i-th block of the document it added
MadeFor(i) ==
    \E e \in Range(types'[res'.blocks[i].dataType]) :
        /\ e.sn = EntryCount(types) + i
        /\ e.docID = res'.docID
        /\ e.from = res'.blocks[i].validityRange.from
        /\ e.validTo = res'.blocks[i].validityRange.to
        /\ e.auxInfo.loader = res'.loader
        /\ e.auxInfo.dataBlockBgn = res'.blocks[i].blockBgn

\* C35: no operation changes the document, from, validTo or auxInfo of an
\* entry that is in the index, removes an entry or changes the order of the
\* entries of a type; load and get_latest leave the index as it is; add
\* appends one entry for each block it indexes, in the type of the block,
\* whatever entries the index already has
C35_EntriesPermanent ==
    [][/\ \A t \in DOMAIN types :
             t \in DOMAIN types' /\ KeptEntries(t) = types[t]
       /\ res'.op # "add" => types' = types
       /\ res'.op = "add" =>
             /\ EntryCount(types') - EntryCount(types) <= Len(res'.blocks)
             /\ res'.err = "none" /\ res'.loader # 0 =>
                   EntryCount(types') - EntryCount(types) = Len(res'.blocks)
             /\ \A i \in 1..(EntryCount(types') - EntryCount(types)) :
                   MadeFor(i)]_vars

\* an add has indexed a block of a type, from and validTo the index had
\* already: the index has both entries
C35_Witness ==
    /\ res.op = "add" /\ res.added # {}
    /\ \E t \in DOMAIN types :
          \E i \in 1..Len(types[t]), j \in 1..Len(types[t]) :
             /\ i < j /\ types[t][j].sn \in res.added
             /\ types[t][i].docID = types[t][j].docID
             /\ types[t][i].from = types[t][j].from
             /\ types[t][i].validTo = types[t][j].validTo

\* a load has read documents of an index of several entries
C35_WitnessLoad ==
    /\ res.op = "load" /\ res.err = "none" /\ Len(res.reads) > 1
    /\ EntryCount(types) > 2

\* every document of the index was added once
AddedOnce ==
    \A i \in 1..Len(hist), j \in 1..Len(hist) :
        hist[i].docID = hist[j].docID => i = j

\* the lines of the document d above line i that give the data type
DocTypeLines(d, i) ==
    {j \in 1..(i - 1) : Files[d][j].k = "md" /\ Files[d][j].key = "type"}

\* the lines of the document d above line i that give the validity range
DocRangeLines(d, i) ==
    {j \in 1..(i - 1) : Files[d][j].k = "md" /\ Files[d][j].key = "runs"}

\* the row of line i of the document d is of the type that is loaded and
\* of a range that holds the key of the load
RowValid(d, i) ==
    /\ i \in RowLines(Files[d])
    /\ typeName = IF DocTypeLines(d, i) = {} THEN TheDefaults.dataType
                  ELSE Files[d][Max(DocTypeLines(d, i))].val
    /\ KeyInside(IF DocRangeLines(d, i) = {} THEN TheDefaults.validityRange
                 ELSE RangeFromString(
                          Files[d][Max(DocRangeLines(d, i))].val).rr)

\* how many times the row of line i of the document d was given to collect
TimesForwarded(d, i) ==
    Cardinality({n \in 1..Len(res.dest.rows) : res.dest.rows[n] = <<d, i>>})

\* C36: when every document was added once with the ExtCSV loader,
\* load<T>(key) gives to collect each data row of the blocks of type T whose
\* range holds key once and no other row, also for a document of several
\* such blocks with blocks of another type or another range between them
C36_RowsForwardedOnce ==
    (res.op = "load" /\ res.err = "none" /\ AddedOnce) =>
        \A d \in MixedDocs, i \in 1..9 :
            TimesForwarded(d, i) =
                IF d \in AddedDocs /\ RowValid(d, i) THEN 1 ELSE 0

\* the document of four blocks and another one are indexed, and the load
\* read the two blocks of the type that hold the key, the rows of lines 2
\* and 9, and a block of the other document
C36_Witness ==
    /\ res.op = "load" /\ res.err = "none" /\ AddedOnce
    /\ AddedDocs = {"mixed", "one"} /\ res.key = 6
    /\ TimesForwarded("mixed", 2) = 1 /\ TimesForwarded("mixed", 9) = 1
    /\ TimesForwarded("mixed", 4) = 0 /\ TimesForwarded("mixed", 7) = 0
    /\ TimesForwarded("one", 2) = 1 /\ TimesForwarded("one", 4) = 1

\* the list updates(type, key) of the type and key of the last query
UpdatesOfQuery == updates(types, res.type, res.key, FALSE).us

\* C37: for every content of the index, a type it knows and a key that is
\* set, latest(type, key) returns the last element of updates(type, key)
\* when that list is not empty, and fails with NoCalibrationData exactly
\* when the list is empty
C37_LatestIsLastUpdate ==
    (res.op = "latest" /\ res.type \in DOMAIN types /\ is_set(res.key)) =>
        /\ UpdatesOfQuery # <<>> =>
              /\ res.err = "none"
              /\ res.upd = UpdatesOfQuery[Len(UpdatesOfQuery)]
        /\ UpdatesOfQuery = <<>> <=> res.err = "NoCalibrationData"

\* latest returned the only update of a type of two entries, passing over
\* the entry of the greater from, which is stale at the key
C37_Witness ==
    /\ res.op = "latest" /\ res.err = "none" /\ is_set(res.key)
    /\ res.type \in DOMAIN types
    /\ Len(types[res.type]) = 2 /\ Len(UpdatesOfQuery) = 1
    /\ res.upd = types[res.type][1]
    /\ types[res.type][2].from <= res.key

\* latest returned the second of two updates of equal from
C37_WitnessTie ==
    /\ res.op = "latest" /\ res.err = "none" /\ is_set(res.key)
    /\ res.type \in DOMAIN types
    /\ Len(UpdatesOfQuery) = 2
    /\ UpdatesOfQuery[1].from = UpdatesOfQuery[2].from
    /\ res.upd = UpdatesOfQuery[2]

\* latest failed for a type whose entries at or below the key are stale
C37_WitnessNoData ==
    /\ res.op = "latest" /\ res.err = "NoCalibrationData"
    /\ res.type \in DOMAIN types
    /\ \E i \in 1..Len(types[res.type]) :
          is_set(types[res.type][i].from)
             /\ types[res.type][i].from <= res.key
    /\ UpdatesOfQuery = <<>>

\* C38: when add(docID) raises an error, whatever the reason, a faulty
\* later block of the document included, the index has no entry of the
\* call: it is the index of before the call
C38_AddAtomic ==
    (res.op = "add" /\ res.err # "none") => res.added = {}

\* C39: after any calls of define_alias, succeeded or not, the name that
\* resolve_alias_if_need gives for a name is final: it is no alias of
\* another name, so resolving it again gives the same name
C39_NoAliasChains ==
    \A n \in AliasNames :
        resolve_alias_if_need(TheMeta, resolve_alias_if_need(TheMeta, n))
           = resolve_alias_if_need(TheMeta, n)

\* C40: in the reads of load and get_latest on documents indexed by add with
\* the ExtCSV loader, the grammar being the one of the indexing, the two
\* assertions at the top of the row handler hold: at every data row that
\* reaches ParsingState::handle_csv the current range is non-empty and the
\* current type is not the empty text, also for a document with a block of
\* an empty range
C40_RowAssertionsHold ==
    Loaded => \A i \in 1..Len(res.reads) : ~ res.reads[i].rowAsserted

\* the document with the block of runs = 2-1 is indexed, that block
\* included, and a load at the bounds of the block read the block before
\* it and the block after it
C40_Witness ==
    /\ res.op = "load" /\ res.err = "none" /\ res.key = 2
    /\ "mixed" \in AddedDocs
    /\ \E e \in Range(types[typeName]) :
          e.docID = "mixed" /\ e.from = 2 /\ e.validTo = 2
    /\ TimesForwarded("mixed", 2) > 0 /\ TimesForwarded("mixed", 9) > 0

\* get_latest read a block of that document
C40_WitnessLatest ==
    /\ res.op = "get_latest" /\ res.err = "none"
    /\ res.reads # <<>> /\ res.reads[1].docID = "mixed"
    /\ res.reads[1].out # <<>>
====
